---- MODULE Spec2Model ----
(***************************************************************************)
(* State-machine model of the MQTT 3.1.1 broker (mqtt-broker) and of the   *)
(* message-assurance, packet-id and topic code of mqtt-core it runs on.    *)
(*                                                                         *)
(* One action models one handler of the connection runtime: the handling   *)
(* of the first packet, each arm of handle_packet, the tail of one         *)
(* iteration of the handle_session loop (mailbox drain, inflight cleanup,  *)
(* retries), and the termination paths of handle_client.  The inputs of a  *)
(* handler (the packet the client sent) are drawn from small sets.         *)
(*                                                                         *)
(* Time is the broker clock in whole seconds (now); retry intervals are    *)
(* kept in milliseconds as in RetryDuration.                               *)
(***************************************************************************)
EXTENDS Integers, Sequences, FiniteSets, TLC

(***************************************************************************)
(* Bounds of the model.                                                    *)
(***************************************************************************)
\* number of transport connections the listener hands out
NumConns == 2
\* latest value of the broker clock, in seconds
MaxTime == 5
\* most entries a QoS 1 or QoS 2 inflight list is let grow to
MaxInflight == 3
\* threshold of ActiveSession::clean_session, scaled down from
\* u16::MAX / 16 = 4095 so that cleanup happens within MaxInflight
CleanMax == 2
\* most inbound QoS 2 PUBLISH arrivals tracked per connection
MaxArrivals == 3
\* most messages remembered as published while a client was away
MaxOwed == 2
\* greatest packet id the broker is let allocate on one connection
MaxBrokerId == 6

(***************************************************************************)
(* Program constants.                                                      *)
(***************************************************************************)
\* u16::MAX
U16Max == 65535
\* RetryDuration::default(), milliseconds
RETRY_BASE == 200
\* configured bound of a topic's broadcast channel (max_queued_messages)
max_queued_messages == 2
\* configured greatest QoS of a topic (default_qos, QosLevel::ExactlyOnce)
default_qos == 2
\* SubAckQoS::Err on the wire
SUBACK_FAILURE == 128

Conns == 1..NumConns
ClientIds == {"c1", "c2"}

(***************************************************************************)
(* Option<T> is a sequence of at most one element.                         *)
(***************************************************************************)
None == <<>>
Some(x) == <<x>>
IsSome(o) == Len(o) = 1
Unwrap(o) == o[1]

Min(a, b) == IF a <= b THEN a ELSE b

(***************************************************************************)
(* Topic tokens, names and filters (mqtt-core/src/topic.rs).               *)
(***************************************************************************)
Str(s) == [kind |-> "String", s |-> s]
DollarTok(s) == [kind |-> "Dollar", s |-> s]
MultiLevel == [kind |-> "MultiLevel", s |-> "#"]
SingleLevel == [kind |-> "SingleLevel", s |-> "+"]

TopicA == <<Str("a")>>
TopicB == <<Str("b")>>
TopicNames == {TopicA, TopicB}
TopicFilters == {TopicA, TopicB}

\* impl PartialEq for TopicToken: self = the name's token, other = the filter's
TokenEq(self, other) ==
    CASE self.kind = "Dollar" -> other.kind = "Dollar" /\ other.s = self.s
      [] self.kind \in {"MultiLevel", "SingleLevel"} -> other.kind # "Dollar"
      [] self.kind = "String" ->
            \/ other.kind \in {"MultiLevel", "SingleLevel"}
            \/ other.kind = "String" /\ other.s = self.s

\* the inner loop of the match: no remaining name token is $-prefixed
NoDollarFrom(name, i) == \A k \in i..Len(name) : name[k].kind # "Dollar"

RECURSIVE TopicMatchFrom(_, _, _)
\* impl PartialEq<TopicFilter> for TopicName, from position i of both
TopicMatchFrom(name, filter, i) ==
    IF i <= Len(name) /\ i <= Len(filter)
    THEN IF ~TokenEq(name[i], filter[i]) THEN FALSE
         ELSE IF i + 1 <= Len(filter) /\ filter[i + 1].kind = "MultiLevel"
              THEN NoDollarFrom(name, i + 1)
              ELSE TopicMatchFrom(name, filter, i + 1)
    ELSE i > Len(name) /\ i > Len(filter)

TopicMatches(name, filter) == TopicMatchFrom(name, filter, 1)

(***************************************************************************)
(* Derived orderings (#[derive(Ord)]) used by the binary search of         *)
(* ExactlyOnceList::origin.  Cmp* return -1, 0 or 1.                       *)
(***************************************************************************)
CmpInt(a, b) == IF a < b THEN -1 ELSE IF a > b THEN 1 ELSE 0

\* byte-wise order of the strings the model uses
StrRank(s) ==
    CASE s = "" -> 0
      [] s = "#" -> 1
      [] s = "$SYS" -> 2
      [] s = "+" -> 3
      [] s = "a" -> 4
      [] s = "b" -> 5
      [] s = "bye" -> 6
      [] s = "gone" -> 7
      [] s = "p" -> 8
      [] s = "q" -> 9

KindRank(k) ==
    CASE k = "Dollar" -> 0
      [] k = "MultiLevel" -> 1
      [] k = "SingleLevel" -> 2
      [] k = "String" -> 3

CmpToken(x, y) ==
    IF KindRank(x.kind) # KindRank(y.kind)
    THEN CmpInt(KindRank(x.kind), KindRank(y.kind))
    ELSE IF x.kind \in {"Dollar", "String"}
         THEN CmpInt(StrRank(x.s), StrRank(y.s))
         ELSE 0

RECURSIVE CmpTopicFrom(_, _, _)
CmpTopicFrom(x, y, i) ==
    IF i > Len(x) \/ i > Len(y) THEN CmpInt(Len(x), Len(y))
    ELSE IF CmpToken(x[i], y[i]) # 0 THEN CmpToken(x[i], y[i])
    ELSE CmpTopicFrom(x, y, i + 1)

CmpTopic(x, y) == CmpTopicFrom(x, y, 1)

\* Option<u16>: None < Some(_)
CmpOptInt(x, y) ==
    IF ~IsSome(x) \/ ~IsSome(y) THEN CmpInt(Len(x), Len(y))
    ELSE CmpInt(Unwrap(x), Unwrap(y))

(***************************************************************************)
(* PublishPacket (mqtt-core/src/codec/v3/publish.rs).                      *)
(***************************************************************************)
QosLevels == {0, 1, 2}

PublishPacket(topic, payload) ==
    [dup |-> FALSE, qos |-> 0, retain |-> FALSE,
     topic_name |-> topic, packet_id |-> None, payload |-> payload]

\* PublishFixedHeaderFlags.byte
FlagsByte(p) ==
    (IF p.dup THEN 8 ELSE 0) + 2 * p.qos + (IF p.retain THEN 1 ELSE 0)

set_qos_atmostonce(p) == [p EXCEPT !.qos = 0]
set_qos_atleastonce(p, id) == [p EXCEPT !.qos = 1, !.packet_id = Some(id)]
set_qos_exactlyonce(p, id) == [p EXCEPT !.qos = 2, !.packet_id = Some(id)]
set_id(p, id) == [p EXCEPT !.packet_id = Some(id)]
set_dup(p, v) == [p EXCEPT !.dup = v]
\* a set_retain that leaves the flag as the publisher sent it
KeepsRetain(p, v) == p
set_retain(p, v) == [p EXCEPT !.retain = v]

\* #[derive(Ord)] on PublishPacket: flags, topic_name, packet_id, payload
CmpPacket(x, y) ==
    IF FlagsByte(x) # FlagsByte(y) THEN CmpInt(FlagsByte(x), FlagsByte(y))
    ELSE IF CmpTopic(x.topic_name, y.topic_name) # 0
         THEN CmpTopic(x.topic_name, y.topic_name)
    ELSE IF CmpOptInt(x.packet_id, y.packet_id) # 0
         THEN CmpOptInt(x.packet_id, y.packet_id)
    ELSE CmpInt(StrRank(x.payload), StrRank(y.payload))


(***************************************************************************)
(* Packets written to a client's stream.  A PUBLISH carries the packet     *)
(* itself; via tells which code path wrote it ("forward", "downgrade",     *)
(* "retained", "retry").  The other packets carry their packet id only.    *)
(***************************************************************************)
NoPacket == PublishPacket(<<>>, "")

\* the packet id PublishPacket::encode puts on the wire, 0 when it puts none
WireId(p) == IF IsSome(p.packet_id) THEN Unwrap(p.packet_id) ELSE 0

OutPublish(p, via) ==
    [type |-> "PUBLISH", id |-> WireId(p), pkt |-> p, via |-> via,
     flag |-> FALSE, codes |-> <<>>]

OutAck(type, id) ==
    [type |-> type, id |-> id, pkt |-> NoPacket, via |-> "",
     flag |-> FALSE, codes |-> <<>>]

\* ConnectReturnCode::BadUsernameOrPassword
BadUsernameOrPassword == 4

\* ConnAckPacket::new(session_present, return_code)
OutConnAck(session_present, code) ==
    [type |-> "CONNACK", id |-> code, pkt |-> NoPacket, via |-> "",
     flag |-> session_present, codes |-> <<>>]

\* SubAckPacket::new(id, return codes)
OutSubAck(id, codes) ==
    [type |-> "SUBACK", id |-> id, pkt |-> NoPacket, via |-> "",
     flag |-> FALSE, codes |-> codes]

(***************************************************************************)
(* IdGenerator (mqtt-core/src/id.rs).  id_table is kept as the set of the  *)
(* ids whose flag is set.                                                  *)
(***************************************************************************)
\* a checked_incr that wraps to 0 whatever the parity
WrapsToZero(max, int) == IF int + 2 > max THEN 0 ELSE int + 2

\* checked_incr on unsigned integers whose greatest value is max:
\* int.checked_add(2), and int % 2 when the sum overflows
checked_incr_in(max, int) == IF int + 2 > max THEN int % 2 ELSE int + 2

\* checked_incr on u16
checked_incr(int) == checked_incr_in(U16Max, int)

\* IdGenType
IdGenTypes == {"Client", "Broker"}

\* IdGenerator::new(_type) with ids of greatest value max
IdGenerator_new(max, type) ==
    [last |-> IF type = "Client" THEN max ELSE max - 1, id_table |-> {}]

\* IdGenerator::new(IdGenType::Broker)
NewBrokerIdGen == IdGenerator_new(U16Max, "Broker")

is_set(gen, idx) == idx \in gen.id_table
IdGenSet(gen, idx) == [gen EXCEPT !.id_table = @ \cup {idx}]
free_id(gen, idx) == [gen EXCEPT !.id_table = @ \ {idx}]

RECURSIVE NextIdLoopIn(_, _, _)
\* the loop of IdGenerator::next_id, at candidate curr_idx, with ids of
\* greatest value max
NextIdLoopIn(max, gen, curr_idx) ==
    IF curr_idx = 0 THEN NextIdLoopIn(max, gen, checked_incr_in(max, curr_idx))
    ELSE IF curr_idx = gen.last THEN [gen |-> gen, id |-> None]
    ELSE IF ~is_set(gen, curr_idx)
         THEN [gen |-> [gen EXCEPT !.last = curr_idx], id |-> Some(curr_idx)]
    ELSE NextIdLoopIn(max, gen, checked_incr_in(max, curr_idx))

\* the loop of IdGenerator::next_id on u16
NextIdLoop(gen, curr_idx) == NextIdLoopIn(U16Max, gen, curr_idx)

\* IdGenerator::next_id: the generator afterwards and the Option<u16>
next_id(gen) == NextIdLoop(gen, checked_incr(gen.last))

\* IdGenerator::next_id with ids of greatest value max
next_id_in(max, gen) ==
    NextIdLoopIn(max, gen, checked_incr_in(max, gen.last))

\* IdGenerator::next_persistant_id with ids of greatest value max
next_persistant_id_in(max, gen) ==
    LET n == next_id_in(max, gen)
    IN  IF IsSome(n.id)
        THEN [gen |-> IdGenSet(n.gen, Unwrap(n.id)), id |-> n.id]
        ELSE n

(***************************************************************************)
(* RetryDuration and the inflight entries (mqtt-core/src/msg_assurance.rs).*)
(***************************************************************************)
\* RetryDuration::exponential; the saturation at Duration::MAX is beyond
\* every interval reachable within MaxTime
exponential(dur) == 2 * dur

\* is_timed_out: I::now().duration_since(last_received) > retry_duration
is_timed_out(e, t) == (t - e.last_received) * 1000 > e.retry_duration

update_retry_duration(e) ==
    [e EXCEPT !.retry_duration = exponential(e.retry_duration)]

StageRank(st) ==
    CASE st = "Origin" -> 0
      [] st = "Publish" -> 1
      [] st = "Rec" -> 2
      [] st = "Rel" -> 3
      [] st = "Comp" -> 4

\* ExactlyOncePacket::origin; arrival is model bookkeeping (0 = not inbound)
Qos2Origin(packet, new_id, t) ==
    [packet |-> packet, new_id |-> new_id, stage |-> "Origin",
     last_received |-> t, retry_duration |-> RETRY_BASE, arrival |-> 0]

\* ExactlyOncePacket::publish
Qos2Publish(packet, new_id, t, arrival) ==
    [packet |-> packet, new_id |-> new_id, stage |-> "Publish",
     last_received |-> t, retry_duration |-> RETRY_BASE, arrival |-> arrival]

\* #[derive(Ord)] on ExactlyOncePacket
CmpEntry(x, y) ==
    IF CmpPacket(x.packet, y.packet) # 0 THEN CmpPacket(x.packet, y.packet)
    ELSE IF x.new_id # y.new_id THEN CmpInt(x.new_id, y.new_id)
    ELSE IF x.stage # y.stage
         THEN CmpInt(StageRank(x.stage), StageRank(y.stage))
    ELSE IF x.last_received # y.last_received
         THEN CmpInt(x.last_received, y.last_received)
    ELSE CmpInt(x.retry_duration, y.retry_duration)

RECURSIVE BinSearchOldLoop(_, _, _, _)
\* slice::binary_search as of Rust 1.52 .. 1.81 (indices from 0)
BinSearchOldLoop(list, target, left, right) ==
    IF left < right
    THEN LET mid == left + (right - left) \div 2
             cmp == CmpEntry(list[mid + 1], target)
         IN  IF cmp = -1 THEN BinSearchOldLoop(list, target, mid + 1, right)
             ELSE IF cmp = 1 THEN BinSearchOldLoop(list, target, left, mid)
             ELSE [found |-> TRUE, idx |-> mid]
    ELSE [found |-> FALSE, idx |-> left]

RECURSIVE BinSearchNewLoop(_, _, _, _)
\* slice::binary_search as of Rust 1.82 (indices from 0)
BinSearchNewLoop(list, target, base, size) ==
    IF size > 1
    THEN LET half == size \div 2
             mid == base + half
             cmp == CmpEntry(list[mid + 1], target)
         IN  BinSearchNewLoop(list, target,
                              IF cmp = 1 THEN base ELSE mid, size - half)
    ELSE LET cmp == CmpEntry(list[base + 1], target)
         IN  IF cmp = 0 THEN [found |-> TRUE, idx |-> base]
             ELSE [found |-> FALSE,
                   idx |-> base + (IF cmp = -1 THEN 1 ELSE 0)]

\* the result of self.inner.binary_search(&packet); on a list that is not
\* sorted the result is unspecified and differs between the two
\* implementations, alg says which one the build has
binary_search(list, target, alg) ==
    IF Len(list) = 0 THEN [found |-> FALSE, idx |-> 0]
    ELSE IF alg = "old" THEN BinSearchOldLoop(list, target, 0, Len(list))
    ELSE BinSearchNewLoop(list, target, 0, Len(list))

BinSearchAlgs == {"old", "new"}

\* Vec::insert(idx, x), idx from 0
VecInsert(list, idx, x) ==
    SubSeq(list, 1, idx) \o <<x>> \o SubSeq(list, idx + 1, Len(list))

\* index (from 1) of the first entry with new_id = id, 0 if there is none
FirstWithId(list, id) ==
    IF \E i \in 1..Len(list) : list[i].new_id = id
    THEN CHOOSE i \in 1..Len(list) :
            /\ list[i].new_id = id
            /\ \A j \in 1..(i - 1) : list[j].new_id # id
    ELSE 0

\* ExactlyOnceList::origin: panicked = the todo!("Packet exists") arm
ExactlyOnceList_origin(list, packet, new_id, t, alg) ==
    LET e == Qos2Origin(packet, new_id, t)
        r == binary_search(list, e, alg)
    IN  IF r.found
        THEN [list |-> list, panicked |-> TRUE, out |-> set_id(packet, new_id)]
        ELSE [list |-> VecInsert(list, r.idx, e), panicked |-> FALSE,
              out |-> set_id(packet, new_id)]

\* ExactlyOnceList::publish: the list afterwards and the Option<PubRecPacket>
ExactlyOnceList_publish(list, packet, new_id, t, arrival, alg) ==
    LET e == Qos2Publish(packet, new_id, t, arrival)
        r == binary_search(list, e, alg)
    IN  IF packet.dup
        THEN IF r.found THEN [list |-> list, rec |-> None]
             ELSE [list |-> VecInsert(list, r.idx, e), rec |-> Some(new_id)]
        ELSE [list |-> Append(list, e), rec |-> Some(new_id)]

\* ExactlyOncePacket::relay on the first entry with the id
\* (ExactlyOnceList::release): the list afterwards and the packet to route
ExactlyOnceList_release(list, packet_id, t) ==
    LET i == FirstWithId(list, packet_id)
    IN  IF i = 0 \/ list[i].stage # "Publish"
        THEN [list |-> list, forw |-> None]
        ELSE [list |-> [list EXCEPT ![i].stage = "Rel",
                                    ![i].last_received = t],
              forw |-> Some(list[i].packet)]

\* ExactlyOncePacket::receive on the first entry with the id
ExactlyOnceList_receive(list, packet_id, t) ==
    LET i == FirstWithId(list, packet_id)
    IN  IF i = 0 \/ list[i].stage # "Origin"
        THEN [list |-> list, rel |-> None]
        ELSE [list |-> [list EXCEPT ![i].stage = "Rec",
                                    ![i].last_received = t],
              rel |-> Some(packet_id)]

\* ExactlyOncePacket::complete on the first entry with the id
ExactlyOnceList_complete(list, packet_id, t) ==
    LET i == FirstWithId(list, packet_id)
    IN  IF i = 0 \/ list[i].stage # "Rec" THEN list
        ELSE [list EXCEPT ![i].stage = "Comp", ![i].last_received = t]

\* the entries of a list that satisfy keep, in order
RECURSIVE SelectEntries(_, _)
SelectEntries(list, stages) ==
    IF list = <<>> THEN <<>>
    ELSE IF Head(list).stage \in stages
         THEN <<Head(list)>> \o SelectEntries(Tail(list), stages)
         ELSE SelectEntries(Tail(list), stages)

\* ExactlyOnceList::clean: the list afterwards and the ids returned
ExactlyOnceList_clean(list) ==
    [list |-> SelectEntries(list, {"Origin", "Publish", "Rec"}),
     ids |-> {list[i].new_id : i \in {j \in 1..Len(list) :
                                        list[j].stage \in {"Comp", "Rel"}}}]

\* ExactlyOncePacket::should_retry
Qos2_should_retry(e, t) == e.stage = "Origin" /\ is_timed_out(e, t)

\* ExactlyOncePacket::get_retry_packet, as the packet written
Qos2_get_retry_packet(e) ==
    CASE e.stage = "Origin" ->
            Some(OutPublish(set_dup(set_id(e.packet, e.new_id), TRUE), "retry"))
      [] e.stage = "Rec" -> Some(OutAck("PUBREL", e.new_id))
      [] OTHER -> None

\* AtLeastOncePacket::origin
Qos1Origin(packet, new_id, t) ==
    [packet |-> packet, new_id |-> new_id, stage |-> "Origin",
     last_received |-> t, retry_duration |-> RETRY_BASE]

\* AtLeastOnceList::origin
AtLeastOnceList_origin(list, packet, new_id, t) ==
    [list |-> Append(list, Qos1Origin(packet, new_id, t)),
     out |-> set_id(packet, new_id)]

\* an acknowledgement that does not change the inflight list
AcknowledgesNothing(list, packet_id, t) == list

\* AtLeastOnceList::acknowledge: every entry with the id
AtLeastOnceList_acknowledge(list, packet_id, t) ==
    [i \in 1..Len(list) |->
        IF list[i].new_id = packet_id
        THEN [list[i] EXCEPT !.stage = "Ack", !.last_received = t]
        ELSE list[i]]

\* AtLeastOnceList::clean
AtLeastOnceList_clean(list) ==
    [list |-> SelectEntries(list, {"Origin", "Publish"}),
     ids |-> {list[i].new_id : i \in {j \in 1..Len(list) :
                                        list[j].stage = "Ack"}}]

\* AtLeastOncePacket::should_retry
Qos1_should_retry(e, t) == e.stage = "Origin" /\ is_timed_out(e, t)

\* AtLeastOncePacket::get_retry_packet followed by the set_dup(true) of
\* retry_packets: the stored packet, which still carries the publisher's id
Qos1_get_retry_packet(e) ==
    IF e.stage = "Origin"
    THEN Some(OutPublish(set_dup(e.packet, TRUE), "retry"))
    ELSE None

(***************************************************************************)
(* ActiveSession and DisconnectedSession (mqtt-broker/src/session.rs).     *)
(* A CONNECT packet is [client_id, clean_session, keep_alive, will,        *)
(* username, password]; a Will is [will_topic, will_message, will_qos,     *)
(* will_retain].                                                           *)
(***************************************************************************)
\* ActiveSession::from_packet (ActiveSession::new of handle_connect_packet)
ActiveSession_from_packet(packet, t) ==
    [client_id |-> packet.client_id, will |-> packet.will,
     keep_alive |-> packet.keep_alive, last_read |-> t,
     topic_filters |-> <<>>, qos1_packets |-> <<>>, qos2_packets |-> <<>>,
     id_gen |-> NewBrokerIdGen]

\* the ids of the entries of an inflight list
ListIds(list) == {list[i].new_id : i \in 1..Len(list)}

\* arrival tags are per connection: a stored entry keeps none
Untagged(list) == [i \in 1..Len(list) |-> [list[i] EXCEPT !.arrival = 0]]

\* impl From<(DisconnectedSession, ConnectPacket)> for ActiveSession
DisconnectedSession_into_active(dc_session, packet, t) ==
    [client_id |-> packet.client_id, will |-> packet.will,
     keep_alive |-> packet.keep_alive, last_read |-> t,
     topic_filters |-> dc_session.topic_filters,
     id_gen |-> [last |-> U16Max - 1,
                 id_table |-> ListIds(dc_session.qos1_packets)
                              \cup ListIds(dc_session.qos2_packets)],
     qos1_packets |-> dc_session.qos1_packets,
     qos2_packets |-> dc_session.qos2_packets]

\* impl From<ActiveSession> for DisconnectedSession
DisconnectedSession_from(value) ==
    [client_id |-> value.client_id, keep_alive |-> value.keep_alive,
     last_read |-> value.last_read, qos1_packets |-> value.qos1_packets,
     qos2_packets |-> Untagged(value.qos2_packets),
     topic_filters |-> value.topic_filters]

\* ActiveSession::timed_out: last_read.elapsed().as_secs() > keep_alive
timed_out(session, t) == t - session.last_read > session.keep_alive

\* an expiry that does not exempt keep-alive 0
ExpiresWhenSilent(dc_session, t) ==
    t - dc_session.last_read > dc_session.keep_alive

\* DisconnectedSession::expired
expired(dc_session, t) ==
    IF dc_session.keep_alive = 0 THEN FALSE
    ELSE t - dc_session.last_read > dc_session.keep_alive

\* the result of ActiveSession::origin for a QoS 1 packet, r being what
\* qos1_packets.origin returned
OriginAtLeastOnce(s1, r) ==
    [session |-> [s1 EXCEPT !.qos1_packets = r.list],
     out |-> r.out, panicked |-> FALSE]

\* the result of ActiveSession::origin for a QoS 2 packet, r being what
\* qos2_packets.origin returned
OriginExactlyOnce(s1, r) ==
    [session |-> [s1 EXCEPT !.qos2_packets = r.list],
     out |-> r.out, panicked |-> r.panicked]

\* ActiveSession::origin after let id = self.next_id(), n being the
\* generator afterwards and the Option<u16>
OriginWithId(session, packet, t, alg, n) ==
    LET s1 == [session EXCEPT !.id_gen = n.gen]
    IN  IF packet.qos = 0
        THEN [session |-> s1, out |-> packet, panicked |-> FALSE]
        ELSE IF ~IsSome(n.id)
        THEN [session |-> s1, out |-> packet, panicked |-> TRUE]
        ELSE IF packet.qos = 1
        THEN OriginAtLeastOnce(
                s1, AtLeastOnceList_origin(session.qos1_packets, packet,
                                           Unwrap(n.id), t))
        ELSE OriginExactlyOnce(
                s1, ExactlyOnceList_origin(session.qos2_packets, packet,
                                           Unwrap(n.id), t, alg))

\* ActiveSession::origin: the session afterwards, the packet returned, and
\* whether the call panicked (unwrap of no id, or todo!("Packet exists"))
ActiveSession_origin(session, packet, t, alg) ==
    OriginWithId(session, packet, t, alg, next_id(session.id_gen))

\* a cleanup that does not look at the length of the lists
CleansAlways(session) ==
    [session EXCEPT
        !.qos1_packets = AtLeastOnceList_clean(@).list,
        !.qos2_packets = ExactlyOnceList_clean(@).list,
        !.id_gen.id_table =
            (@ \ AtLeastOnceList_clean(session.qos1_packets).ids)
               \ ExactlyOnceList_clean(session.qos2_packets).ids]

\* ActiveSession::clean_session, with the threshold CleanMax
ActiveSession_clean_session(session) ==
    LET c1 == AtLeastOnceList_clean(session.qos1_packets)
        s1 == IF Len(session.qos1_packets) > CleanMax
              THEN [session EXCEPT !.qos1_packets = c1.list,
                                   !.id_gen.id_table = @ \ c1.ids]
              ELSE session
        c2 == ExactlyOnceList_clean(s1.qos2_packets)
    IN  IF Len(s1.qos2_packets) > CleanMax
        THEN [s1 EXCEPT !.qos2_packets = c2.list,
                        !.id_gen.id_table = @ \ c2.ids]
        ELSE s1

RECURSIVE RetryQos1(_, _)
\* the first loop of retry_packets: the list afterwards and the packets
RetryQos1(list, t) ==
    IF list = <<>> THEN [list |-> <<>>, wrote |-> <<>>]
    ELSE LET e == Head(list)
             rest == RetryQos1(Tail(list), t)
             retry == Qos1_should_retry(e, t) /\ IsSome(Qos1_get_retry_packet(e))
         IN  [list |-> <<IF retry THEN update_retry_duration(e) ELSE e>>
                       \o rest.list,
              wrote |-> (IF retry THEN Qos1_get_retry_packet(e) ELSE <<>>)
                        \o rest.wrote]

RECURSIVE RetryQos2(_, _)
\* the second loop of retry_packets
RetryQos2(list, t) ==
    IF list = <<>> THEN [list |-> <<>>, wrote |-> <<>>]
    ELSE LET e == Head(list)
             rest == RetryQos2(Tail(list), t)
             retry == Qos2_should_retry(e, t) /\ IsSome(Qos2_get_retry_packet(e))
         IN  [list |-> <<IF retry THEN update_retry_duration(e) ELSE e>>
                       \o rest.list,
              wrote |-> (IF retry THEN Qos2_get_retry_packet(e) ELSE <<>>)
                        \o rest.wrote]

\* ActiveSession::retry_packets: the session afterwards and the bytes written
ActiveSession_retry_packets(session, t) ==
    LET r1 == RetryQos1(session.qos1_packets, t)
        r2 == RetryQos2(session.qos2_packets, t)
    IN  [session |-> [session EXCEPT !.qos1_packets = r1.list,
                                     !.qos2_packets = r2.list],
         wrote |-> r1.wrote \o r2.wrote]

\* the mailbox loop writes the packet that session.origin returned
Forwarded(o) ==
    [session |-> o.session, panicked |-> o.panicked,
     wrote |-> <<OutPublish(o.out, "forward")>>]

\* the mailbox loop writes its own copy p1 and drops what session.origin
\* returned
Downgraded(o, p1) ==
    [session |-> o.session, panicked |-> o.panicked,
     wrote |-> <<OutPublish(p1, "downgrade")>>]

\* the body of the mailbox loop of handle_session for one message m,
\* [qos_level |-> the slot's, packet |-> the message]
DrainOne(session, m, t, alg) ==
    IF m.qos_level = m.packet.qos
    THEN Forwarded(ActiveSession_origin(session, m.packet, t, alg))
    ELSE IF Min(m.qos_level, m.packet.qos) = 0
    THEN [session |-> session, panicked |-> FALSE,
          wrote |-> <<OutPublish(set_qos_atmostonce(m.packet),
                                 "downgrade")>>]
    ELSE Downgraded(
            ActiveSession_origin(session, set_qos_atleastonce(m.packet, 0),
                                 t, alg),
            set_qos_atleastonce(m.packet, 0))

\* the packets of one message before those of the messages after it
DrainJoin(step, rest) ==
    [session |-> rest.session, wrote |-> step.wrote \o rest.wrote,
     panicked |-> rest.panicked]

RECURSIVE DrainMsgs(_, _, _, _)
RECURSIVE DrainFrom(_, _, _, _)
\* the mailbox loop of handle_session over the pending messages msgs
DrainMsgs(session, msgs, t, alg) ==
    IF msgs = <<>>
    THEN [session |-> session, wrote |-> <<>>, panicked |-> FALSE]
    ELSE DrainFrom(DrainOne(session, Head(msgs), t, alg), Tail(msgs), t, alg)

\* the loop after one message: a panic ends it
DrainFrom(step, msgs, t, alg) ==
    IF step.panicked
    THEN [session |-> step.session, wrote |-> <<>>, panicked |-> TRUE]
    ELSE DrainJoin(step, DrainMsgs(step.session, msgs, t, alg))

(***************************************************************************)
(* Mailbox and ServerTopics (mqtt-broker/src/mailbox.rs, topic.rs).  A     *)
(* Mail slot holds the receiver of a topic's broadcast channel, kept here  *)
(* as the queue of the messages the receiver has not read yet.             *)
(***************************************************************************)
\* Mail::new with a fresh receiver
Mail(topic, qos_level) == [topic |-> topic, qos_level |-> qos_level,
                           queue |-> <<>>]

\* Mailbox::add_slot: Mail's PartialEq compares the topic only
Mailbox_add_slot(mailbox, mail) ==
    IF \E i \in 1..Len(mailbox) : mailbox[i].topic = mail.topic
    THEN mailbox
    ELSE Append(mailbox, mail)

\* a remove_slot with `if let` in place of `while let`: the first slot only
RemoveFirstSlot(mailbox, filter) ==
    IF \E i \in 1..Len(mailbox) : TopicMatches(mailbox[i].topic, filter)
    THEN LET idx == CHOOSE i \in 1..Len(mailbox) :
                       /\ TopicMatches(mailbox[i].topic, filter)
                       /\ \A j \in 1..(i - 1) :
                              ~TopicMatches(mailbox[j].topic, filter)
         IN  SubSeq(mailbox, 1, idx - 1) \o SubSeq(mailbox, idx + 1, Len(mailbox))
    ELSE mailbox

RECURSIVE Mailbox_remove_slot(_, _)
\* Mailbox::remove_slot
Mailbox_remove_slot(mailbox, filter) ==
    IF mailbox = <<>> THEN <<>>
    ELSE IF TopicMatches(Head(mailbox).topic, filter)
         THEN Mailbox_remove_slot(Tail(mailbox), filter)
         ELSE <<Head(mailbox)>> \o Mailbox_remove_slot(Tail(mailbox), filter)

RECURSIVE PendingMsgs(_)
\* the messages Mail::recv hands out, slot after slot
PendingMsgs(mailbox) ==
    IF mailbox = <<>> THEN <<>>
    ELSE [i \in 1..Len(Head(mailbox).queue) |->
              [qos_level |-> Head(mailbox).qos_level,
               packet |-> Head(mailbox).queue[i]]]
         \o PendingMsgs(Tail(mailbox))

EmptiedMailbox(mailbox) ==
    [i \in 1..Len(mailbox) |-> [mailbox[i] EXCEPT !.queue = <<>>]]

\* a channel that hands the newest message out first
ChannelPushFront(queue, packet) == <<packet>> \o queue

\* broadcast::Sender::send as seen by one receiver: a receiver that lags by
\* more than the channel's bound loses the oldest messages
ChannelPush(queue, packet) ==
    LET q == Append(queue, packet)
    IN  IF Len(q) > max_queued_messages
        THEN SubSeq(q, Len(q) - max_queued_messages + 1, Len(q))
        ELSE q

\* ServerTopic::new
NewServerTopic == [exists |-> TRUE, retained_message |-> None]
NoServerTopic == [exists |-> FALSE, retained_message |-> None]

\* ServerTopic::retain_message
ServerTopic_retain_message(topic, message) ==
    IF message.payload = ""
    THEN [topic EXCEPT !.retained_message = None]
    ELSE [topic EXCEPT !.retained_message = Some(message)]

(***************************************************************************)
(* State.                                                                  *)
(*   now          the broker clock, seconds                                *)
(*   require_auth MqttConfig::require_auth                                 *)
(*   topics       ServerTopics.topics: per topic name, whether the topic   *)
(*                exists and its retained message                          *)
(*   dc_sessions  DisconnectedSessions: per client id, the stored session  *)
(*   conn         per connection, the position of its handle_client task   *)
(*                (pc), its ActiveSession and its Mailbox                  *)
(*   io           what the last step read and wrote: the connection, the   *)
(*                handler, the packet id read, the packets written to the  *)
(*                stream and the packets handed to publish_to_topic        *)
(*   away         bookkeeping for stored persistent sessions: the          *)
(*                subscriptions the client holds and the QoS 2 messages    *)
(*                published to them since it went away                     *)
(* The fields clean_session, resumed, looped, subs, owed, n_arrivals and   *)
(* routes of conn are bookkeeping for the properties; no handler reads     *)
(* them.                                                                   *)
(***************************************************************************)
VARIABLES now, require_auth, topics, dc_sessions, conn, io, away

vars == <<now, require_auth, topics, dc_sessions, conn, io, away>>

NoRoutes == [a \in 1..MaxArrivals |-> 0]

ClosedConn ==
    [pc |-> "closed", session |-> None, mailbox |-> <<>>,
     clean_session |-> FALSE, resumed |-> FALSE, looped |-> FALSE,
     subs |-> {}, owed |-> <<>>, n_arrivals |-> 0, routes |-> NoRoutes]

NotAway == [subs |-> {}, owed |-> <<>>]

Event(c, kind, id, wrote, routed) ==
    [conn |-> c, kind |-> kind, id |-> id, wrote |-> wrote, routed |-> routed]

Init ==
    /\ now = 0
    /\ require_auth \in BOOLEAN
    /\ topics = [t \in TopicNames |-> NoServerTopic]
    /\ dc_sessions = [k \in ClientIds |-> None]
    /\ conn = [c \in Conns |-> ClosedConn]
    /\ io = Event(0, "Init", 0, <<>>, <<>>)
    /\ away = [k \in ClientIds |-> NotAway]

InSession(c) == conn[c].pc = "session"
Session(c) == Unwrap(conn[c].session)

(***************************************************************************)
(* The router: MqttServer::publish_to_topic and retain_message.            *)
(***************************************************************************)
\* topic.channel().send(packet): every receiver of the topic's channel
Deliver(cn, topic, packet) ==
    [c \in Conns |->
        [cn[c] EXCEPT !.mailbox =
            [i \in 1..Len(cn[c].mailbox) |->
                IF cn[c].mailbox[i].topic = topic
                THEN [cn[c].mailbox[i] EXCEPT
                          !.queue = ChannelPush(@, packet)]
                ELSE cn[c].mailbox[i]]]]

\* MqttServer::publish_to_topic on the pair [conn, topics]
publish_to_topic(st, topic, packet) ==
    IF st.topics[topic].exists
    THEN [st EXCEPT !.conn = Deliver(st.conn, topic, packet)]
    ELSE [st EXCEPT !.topics[topic] = NewServerTopic]

\* ServerTopics::retain_message; the caller checks that the topic exists
\* (the other arm is unreachable!())
retain_message(st, packet) ==
    [st EXCEPT !.topics[packet.topic_name] =
                    ServerTopic_retain_message(@, packet)]

\* bookkeeping: a QoS 2 message routed to topic is owed to every client
\* whose stored persistent session holds a QoS 2 subscription matching it
Owe(aw, dcs, packet) ==
    [k \in ClientIds |->
        IF /\ IsSome(dcs[k])
           /\ packet.qos = 2
           /\ \E sub \in aw[k].subs :
                 sub.qos = 2 /\ TopicMatches(packet.topic_name, sub.filter)
           /\ Len(aw[k].owed) < MaxOwed
        THEN [aw[k] EXCEPT !.owed = Append(@, packet)]
        ELSE aw[k]]

(***************************************************************************)
(* The listener and the handshake (start_plaintext, handle_first_packet,   *)
(* handle_connect_packet).                                                 *)
(***************************************************************************)
\* DisconnectedSessions::clean_expired
clean_expired(dcs, t) ==
    [k \in ClientIds |->
        IF IsSome(dcs[k]) /\ expired(Unwrap(dcs[k]), t) THEN None ELSE dcs[k]]

\* start_plaintext: sweep the registry, accept, spawn handle_client
Accept(c) ==
    /\ conn[c].pc = "closed"
    /\ dc_sessions' = clean_expired(dc_sessions, now)
    /\ conn' = [conn EXCEPT ![c].pc = "first"]
    /\ away' = [k \in ClientIds |->
                   IF IsSome(dc_sessions'[k]) THEN away[k] ELSE NotAway]
    /\ io' = Event(c, "Accept", 0, <<>>, <<>>)
    /\ UNCHANGED <<now, require_auth, topics>>

\* handle_first_packet, PingReq arm
FirstPingReq(c) ==
    /\ conn[c].pc = "first"
    /\ conn' = [conn EXCEPT ![c] = ClosedConn]
    /\ io' = Event(c, "FirstPingReq", 0, <<OutAck("PINGRESP", 0)>>, <<>>)
    /\ UNCHANGED <<now, require_auth, topics, dc_sessions, away>>

\* handle_first_packet, any other packet or a failed read
FirstPacketError(c) ==
    /\ conn[c].pc = "first"
    /\ conn' = [conn EXCEPT ![c] = ClosedConn]
    /\ io' = Event(c, "FirstPacketError", 0, <<>>, <<>>)
    /\ UNCHANGED <<now, require_auth, topics, dc_sessions, away>>

\* the credentials a CONNECT carries: none, a pair the user database
\* accepts ("ok") or a pair it rejects ("bad")
Credentials == {"none", "ok", "bad"}

\* handle_connect_packet up to the lookup of the session: the CONNECT is
\* accepted.  AuthManager::verify_credentials has todo!() for a rejected
\* pair and the missing pair returns before any CONNACK is written
ConnectAccepted(cred) == ~require_auth \/ cred = "ok"

\* a lookup that leaves the entry in the registry
KeepsSession(dcs, id) == dcs

\* DisconnectedSessions::remove_session: the registry afterwards
remove_session(dcs, id) == [dcs EXCEPT ![id] = None]

\* handle_connect_packet for an accepted CONNECT
Connect(c, packet, cred) ==
    /\ conn[c].pc = "first"
    /\ ConnectAccepted(cred)
    /\ LET k == packet.client_id
           found == IsSome(dc_sessions[k])
           resume == found /\ ~packet.clean_session
           session ==
              IF resume
              THEN DisconnectedSession_into_active(Unwrap(dc_sessions[k]),
                                                   packet, now)
              ELSE ActiveSession_from_packet(packet, now)
       IN  /\ dc_sessions' = remove_session(dc_sessions, k)
           /\ conn' = [conn EXCEPT ![c] =
                 [pc |-> "session", session |-> Some(session),
                  mailbox |-> <<>>,
                  clean_session |-> packet.clean_session,
                  resumed |-> resume, looped |-> FALSE,
                  subs |-> IF resume THEN away[k].subs ELSE {},
                  owed |-> IF resume THEN away[k].owed ELSE <<>>,
                  n_arrivals |-> 0, routes |-> NoRoutes]]
           /\ away' = [away EXCEPT ![k] = NotAway]
           /\ io' = Event(c, "Connect", 0, <<OutConnAck(resume, 0)>>, <<>>)
    /\ UNCHANGED <<now, require_auth, topics>>

\* handle_connect_packet for a CONNECT that is not accepted: the task ends
\* (return of Err, or the panic of todo!()) and nothing has been written
ConnectRejected(c, packet, cred) ==
    /\ conn[c].pc = "first"
    /\ ~ConnectAccepted(cred)
    /\ conn' = [conn EXCEPT ![c] = ClosedConn]
    /\ io' = Event(c, "ConnectRejected", 0, <<>>, <<>>)
    /\ UNCHANGED <<now, require_auth, topics, dc_sessions, away>>

(***************************************************************************)
(* Termination of a connection task (handle_client).                       *)
(***************************************************************************)
\* a panic of the connection task: the session and the mailbox are dropped
Panicked(c, kind) ==
    /\ conn' = [conn EXCEPT ![c] = ClosedConn]
    /\ io' = Event(c, kind, 0, <<>>, <<>>)
    /\ UNCHANGED <<now, require_auth, topics, dc_sessions, away>>

\* handle_session returned Ok(()): the session is dropped
ClosedOk(c, kind) ==
    /\ conn' = [conn EXCEPT ![c] = ClosedConn]
    /\ io' = Event(c, kind, 0, <<>>, <<>>)
    /\ UNCHANGED <<now, require_auth, topics, dc_sessions, away>>

\* the packet publish_will builds for a session with a will, with the
\* session afterwards; panicked = expect("No valid Id's available")
WillPacket(session) ==
    LET will == Unwrap(session.will)
        packet == PublishPacket(will.will_topic, will.will_message)
        n == next_id(session.id_gen)
        s1 == [session EXCEPT !.id_gen = n.gen]
        s2 == ActiveSession_clean_session(s1)
        n2 == next_id(s2.id_gen)
        got == IF IsSome(n.id) THEN [session |-> s1, id |-> n.id]
               ELSE [session |-> [s2 EXCEPT !.id_gen = n2.gen], id |-> n2.id]
    IN  IF will.will_qos = 0
        THEN [session |-> session, packet |-> packet, panicked |-> FALSE]
        ELSE IF ~IsSome(got.id)
        THEN [session |-> got.session, packet |-> packet, panicked |-> TRUE]
        ELSE [session |-> got.session, panicked |-> FALSE,
              packet |-> IF will.will_qos = 1
                         THEN set_qos_atleastonce(packet, Unwrap(got.id))
                         ELSE set_qos_exactlyonce(packet, Unwrap(got.id))]

\* the Err arm of handle_client: publish_will, then
\* dc_sessions.add_session(session.into())
EndWithError(c, session, kind) ==
    LET k == session.client_id
        st == [conn |-> conn, topics |-> topics]
        stored(s) == [dc_sessions EXCEPT ![k] =
                          Some(DisconnectedSession_from(s))]
        gone(cn) == [cn EXCEPT ![c] = ClosedConn]
        left(aw) == [aw EXCEPT ![k] =
                        [subs |-> conn[c].subs, owed |-> <<>>]]
    IN  IF ~IsSome(session.will)
        THEN /\ dc_sessions' = stored(session)
             /\ conn' = gone(conn)
             /\ away' = left(away)
             /\ io' = Event(c, kind, 0, <<>>, <<>>)
             /\ UNCHANGED <<now, require_auth, topics>>
        ELSE LET w == WillPacket(session)
                 will == Unwrap(session.will)
                 st1 == IF will.will_retain
                        THEN retain_message(st, w.packet) ELSE st
                 st2 == publish_to_topic(st1, w.packet.topic_name, w.packet)
             IN  IF \/ w.panicked
                    \/ will.will_retain /\ ~topics[will.will_topic].exists
                 THEN Panicked(c, "Panic")
                 ELSE /\ dc_sessions' = stored(w.session)
                      /\ conn' = gone(st2.conn)
                      /\ topics' = st2.topics
                      /\ away' = left(Owe(away, dc_sessions, w.packet))
                      /\ io' = Event(c, kind, 0, <<>>, <<w.packet>>)
                      /\ UNCHANGED <<now, require_auth>>

\* the ids next_id has handed out stay within the model's bound
IdsBounded(session) ==
    session.id_gen.last = U16Max - 1 \/ session.id_gen.last <= MaxBrokerId

\* the id publish_will takes for the will stays within the model's bound
WillIdBounded(session) ==
    IF IsSome(session.will) THEN IdsBounded(WillPacket(session).session)
    ELSE TRUE

\* read_packet_with_timeout returned an error: the transport failed or the
\* bytes do not decode
TransportError(c) ==
    /\ InSession(c)
    /\ WillIdBounded(Session(c))
    /\ EndWithError(c, Session(c), "TransportError")

\* a packet arrived and session.timed_out() holds: handle_session returns
KeepAliveClose(c) ==
    /\ InSession(c)
    /\ timed_out(Session(c), now)
    /\ ClosedOk(c, "KeepAliveClose")

\* a packet arrived in time: session.update_last_read()
Arrives(c) == InSession(c) /\ ~timed_out(Session(c), now)
Touched(c) == [Session(c) EXCEPT !.last_read = now]

(***************************************************************************)
(* handle_packet, one action per arm.                                      *)
(***************************************************************************)
\* the arrival an inbound QoS 2 PUBLISH belongs to: a PUBLISH sent with
\* DUP=1 while the list holds the same packet under the same id in stage
\* Publish is a second arrival of that message, anything else is a new one
ArrivalOf(c, packet, stored) ==
    LET list == Session(c).qos2_packets
        same == {i \in 1..Len(list) :
                    /\ list[i].new_id = Unwrap(packet.packet_id)
                    /\ list[i].stage = "Publish"
                    /\ list[i].arrival # 0
                    /\ list[i].packet = stored}
    IN  IF packet.dup /\ same # {}
        THEN list[CHOOSE i \in same : \A j \in same : j <= i].arrival
        ELSE conn[c].n_arrivals + 1

\* Publish arm, QoS 2: session.publish and the PUBREC
PublishExactlyOnce(c, inbound, packet, st, alg) ==
    LET arrival == ArrivalOf(c, inbound, packet)
        r == ExactlyOnceList_publish(Touched(c).qos2_packets, packet,
                                     Unwrap(packet.packet_id), now, arrival,
                                     alg)
    IN  /\ Len(Session(c).qos2_packets) < MaxInflight
        /\ conn[c].n_arrivals < MaxArrivals
        /\ conn' = [st.conn EXCEPT
                ![c].session = Some([Touched(c) EXCEPT
                                        !.qos2_packets = r.list]),
                ![c].n_arrivals = IF arrival > @ THEN arrival ELSE @]
        /\ topics' = st.topics
        /\ io' = Event(c, "Publish", Unwrap(packet.packet_id),
                       IF IsSome(r.rec)
                       THEN <<OutAck("PUBREC", Unwrap(r.rec))>> ELSE <<>>,
                       <<>>)
        /\ UNCHANGED <<now, require_auth, dc_sessions, away>>

\* Publish arm, QoS 1 (PUBACK, then publish_to_topic) and QoS 0
PublishRouted(c, packet, st) ==
    LET st1 == [st EXCEPT !.conn[c].session = Some(Touched(c))]
        st2 == publish_to_topic(st1, packet.topic_name, packet)
    IN  /\ conn' = st2.conn
        /\ topics' = st2.topics
        /\ away' = Owe(away, dc_sessions, packet)
        /\ io' = Event(c, "Publish", WireId(packet),
                       IF packet.qos = 1
                       THEN <<OutAck("PUBACK", Unwrap(packet.packet_id))>>
                       ELSE <<>>,
                       <<packet>>)
        /\ UNCHANGED <<now, require_auth, dc_sessions>>

\* MqttPacket::Publish arm of handle_packet
Publish(c, inbound, alg) ==
    /\ Arrives(c)
    /\ LET p0 == set_dup(inbound, FALSE)
           st == [conn |-> conn, topics |-> topics]
           st1 == IF p0.retain THEN retain_message(st, p0) ELSE st
           packet == set_retain(p0, FALSE)
       IN  IF p0.retain /\ ~topics[p0.topic_name].exists
           THEN Panicked(c, "Panic")
           ELSE IF packet.qos = 2
                THEN PublishExactlyOnce(c, inbound, packet, st1, alg)
                ELSE PublishRouted(c, packet, st1)

\* MqttPacket::PingReq arm
PingReq(c) ==
    /\ Arrives(c)
    /\ conn' = [conn EXCEPT ![c].session = Some(Touched(c))]
    /\ io' = Event(c, "PingReq", 0, <<OutAck("PINGRESP", 0)>>, <<>>)
    /\ UNCHANGED <<now, require_auth, topics, dc_sessions, away>>

\* MqttPacket::PubAck arm: session.ack returns a PubAckPacket, which the arm
\* writes to the stream
PubAck(c, id) ==
    /\ Arrives(c)
    /\ conn' = [conn EXCEPT ![c].session =
          Some([Touched(c) EXCEPT !.qos1_packets =
                   AtLeastOnceList_acknowledge(@, id, now)])]
    /\ io' = Event(c, "PubAck", id, <<OutAck("PUBACK", id)>>, <<>>)
    /\ UNCHANGED <<now, require_auth, topics, dc_sessions, away>>

\* MqttPacket::PubRec arm: session.rec, and the PUBREL it returns
PubRec(c, id) ==
    /\ Arrives(c)
    /\ LET r == ExactlyOnceList_receive(Touched(c).qos2_packets, id, now)
       IN  /\ conn' = [conn EXCEPT ![c].session =
                 Some([Touched(c) EXCEPT !.qos2_packets = r.list])]
           /\ io' = Event(c, "PubRec", id,
                          IF IsSome(r.rel)
                          THEN <<OutAck("PUBREL", Unwrap(r.rel))>> ELSE <<>>,
                          <<>>)
    /\ UNCHANGED <<now, require_auth, topics, dc_sessions, away>>

\* the arrival of the entry a PUBREL(id) releases, 0 if it releases none
ReleasedArrival(list, id) ==
    LET i == FirstWithId(list, id)
    IN  IF i = 0 \/ list[i].stage # "Publish" THEN 0 ELSE list[i].arrival

\* MqttPacket::PubRel arm: session.rel, PUBCOMP, publish_to_topic
PubRel(c, id) ==
    /\ Arrives(c)
    /\ LET r == ExactlyOnceList_release(Touched(c).qos2_packets, id, now)
           a == ReleasedArrival(Session(c).qos2_packets, id)
           st == [conn |-> [conn EXCEPT
                      ![c].session = Some([Touched(c) EXCEPT
                                              !.qos2_packets = r.list]),
                      ![c].routes = IF a = 0 THEN @
                                    ELSE [@ EXCEPT ![a] = Min(@ + 1, 2)]],
                  topics |-> topics]
       IN  IF IsSome(r.forw)
           THEN LET forw == Unwrap(r.forw)
                    st1 == publish_to_topic(st, forw.topic_name, forw)
                IN  /\ conn' = st1.conn
                    /\ topics' = st1.topics
                    /\ away' = Owe(away, dc_sessions, forw)
                    /\ io' = Event(c, "PubRel", id,
                                   <<OutAck("PUBCOMP", id)>>, <<forw>>)
           ELSE /\ conn' = st.conn
                /\ io' = Event(c, "PubRel", id, <<>>, <<>>)
                /\ UNCHANGED <<topics, away>>
    /\ UNCHANGED <<now, require_auth, dc_sessions>>

\* MqttPacket::PubComp arm: session.comp
PubComp(c, id) ==
    /\ Arrives(c)
    /\ conn' = [conn EXCEPT ![c].session =
          Some([Touched(c) EXCEPT !.qos2_packets =
                   ExactlyOnceList_complete(@, id, now)])]
    /\ io' = Event(c, "PubComp", id, <<>>, <<>>)
    /\ UNCHANGED <<now, require_auth, topics, dc_sessions, away>>

\* MqttPacket::Disconnect arm: Ok(true), handle_session returns Ok(())
Disconnect(c) ==
    /\ Arrives(c)
    /\ ClosedOk(c, "Disconnect")

\* the fallthrough arm: CONNECT, CONNACK, SUBACK, UNSUBACK or PINGRESP
\* received in a session is a protocol error
InvalidPacket(c) ==
    /\ Arrives(c)
    /\ WillIdBounded(Touched(c))
    /\ EndWithError(c, Touched(c), "InvalidPacket")

\* a matching topic without a retained message: the slot is added
SlotAdded(acc, mail) ==
    [session |-> acc.session,
     mailbox |-> Mailbox_add_slot(acc.mailbox, mail),
     wrote |-> acc.wrote, sub_allowed |-> TRUE, panicked |-> FALSE]

\* a matching topic with a retained message: what session.origin(retained)
\* returned is written, then the slot is added
RetainedSent(acc, mail, o) ==
    [session |-> o.session,
     mailbox |-> Mailbox_add_slot(acc.mailbox, mail),
     wrote |-> Append(acc.wrote, OutPublish(o.out, "retained")),
     sub_allowed |-> TRUE, panicked |-> o.panicked]

\* the body of the loop of subscribe_to_topic_filter for one topic
SubscribeToTopic(acc, topic_name, topic, topic_sub, alg) ==
    IF ~(topic.exists /\ TopicMatches(topic_name, topic_sub.filter))
    THEN acc
    ELSE IF IsSome(topic.retained_message)
    THEN RetainedSent(acc, Mail(topic_name, Min(topic_sub.qos, default_qos)),
                      ActiveSession_origin(acc.session,
                                           Unwrap(topic.retained_message),
                                           now, alg))
    ELSE SlotAdded(acc, Mail(topic_name, Min(topic_sub.qos, default_qos)))

RECURSIVE subscribe_to_topic_filter(_, _, _, _)
\* subscribe_to_topic_filter (mqtt-broker/src/topic.rs) over the topics in
\* the order the HashMap iterates them; acc carries the session, the
\* mailbox, the packets written and sub_allowed
subscribe_to_topic_filter(acc, order, topic_sub, alg) ==
    IF order = <<>> \/ acc.panicked THEN acc
    ELSE subscribe_to_topic_filter(
            SubscribeToTopic(acc, Head(order), topics[Head(order)],
                             topic_sub, alg),
            Tail(order), topic_sub, alg)

\* the Subscribe arm after subscribe_to_topic_filter returned r for the
\* filter f: the return code pushed, and the subscription that was granted
FilterAnswered(acc, f, r) ==
    [session |-> r.session, mailbox |-> r.mailbox,
     wrote |-> r.wrote, panicked |-> r.panicked,
     resp |-> Append(acc.resp,
                     IF r.sub_allowed THEN f.qos ELSE SUBACK_FAILURE),
     granted |-> IF r.sub_allowed
                 THEN acc.granted \cup {[filter |-> f.filter, qos |-> f.qos]}
                 ELSE acc.granted]

\* the body of the loop of the Subscribe arm for one filter f,
\* [ok |-> it parsed, filter, qos]
SubscribeFilter(acc, f, order, alg) ==
    IF ~f.ok
    THEN [acc EXCEPT !.resp = Append(@, SUBACK_FAILURE)]
    ELSE FilterAnswered(
            acc, f,
            subscribe_to_topic_filter(
                [session |-> acc.session, mailbox |-> acc.mailbox,
                 wrote |-> acc.wrote, sub_allowed |-> FALSE,
                 panicked |-> FALSE],
                order, f, alg))

RECURSIVE SubscribeFilters(_, _, _, _)
\* the loop of the Subscribe arm over packet.topic_filters(); acc also
\* carries the return codes and the subscriptions that were granted
SubscribeFilters(acc, filters, order, alg) ==
    IF filters = <<>> \/ acc.panicked THEN acc
    ELSE SubscribeFilters(SubscribeFilter(acc, Head(filters), order, alg),
                          Tail(filters), order, alg)

\* the Subscribe arm after its loop returned r: the SUBACK
SubscribeAnswered(c, id, r) ==
    IF r.panicked
    THEN Panicked(c, "Panic")
    ELSE /\ IdsBounded(r.session)
         /\ Len(r.session.qos1_packets) <= MaxInflight
         /\ Len(r.session.qos2_packets) <= MaxInflight
         /\ conn' = [conn EXCEPT
               ![c].session = Some(r.session),
               ![c].mailbox = r.mailbox,
               ![c].subs = IF conn[c].clean_session THEN @
                           ELSE @ \cup r.granted]
         /\ io' = Event(c, "Subscribe", id,
                        Append(r.wrote, OutSubAck(id, r.resp)), <<>>)
         /\ UNCHANGED <<now, require_auth, topics, dc_sessions, away>>

\* MqttPacket::Subscribe arm
Subscribe(c, id, filters, order, alg) ==
    /\ Arrives(c)
    /\ IF Len(filters) = 0
       THEN /\ WillIdBounded(Touched(c))
            /\ EndWithError(c, Touched(c), "InvalidPacket")
       ELSE SubscribeAnswered(
               c, id,
               SubscribeFilters(
                   [session |-> Touched(c), mailbox |-> conn[c].mailbox,
                    wrote |-> <<>>, panicked |-> FALSE, resp |-> <<>>,
                    granted |-> {}],
                   filters, order, alg))

RECURSIVE RemoveFilters(_, _)
\* the loop of the Unsubscribe arm
RemoveFilters(mailbox, filters) ==
    IF filters = <<>> THEN mailbox
    ELSE RemoveFilters(Mailbox_remove_slot(mailbox, Head(filters)),
                       Tail(filters))

\* MqttPacket::Unsubscribe arm
Unsubscribe(c, id, filters) ==
    /\ Arrives(c)
    /\ conn' = [conn EXCEPT
          ![c].session = Some(Touched(c)),
          ![c].mailbox = RemoveFilters(@, filters),
          ![c].subs = {sub \in @ :
                          \A i \in 1..Len(filters) : sub.filter # filters[i]}]
    /\ io' = Event(c, "Unsubscribe", id, <<OutAck("UNSUBACK", id)>>, <<>>)
    /\ UNCHANGED <<now, require_auth, topics, dc_sessions, away>>

(***************************************************************************)
(* The rest of one iteration of the handle_session loop: the mailbox       *)
(* drain, session.clean_session() and session.retry_packets().             *)
(***************************************************************************)
RECURSIVE PopDelivered(_, _)
\* bookkeeping: the owed messages that the packets written do not deliver
PopDelivered(owed, wrote) ==
    IF owed = <<>> \/ wrote = <<>> THEN owed
    ELSE IF /\ Head(wrote).type = "PUBLISH"
            /\ Head(wrote).pkt.topic_name = Head(owed).topic_name
            /\ Head(wrote).pkt.payload = Head(owed).payload
         THEN PopDelivered(Tail(owed), Tail(wrote))
         ELSE PopDelivered(owed, Tail(wrote))

\* the end of an iteration: d is what the mailbox loop returned, r what
\* session.retry_packets returned after session.clean_session()
LoopTailDone(c, d, r) ==
    IF d.panicked
    THEN Panicked(c, "Panic")
    ELSE /\ IdsBounded(d.session)
         /\ Len(d.session.qos1_packets) <= MaxInflight
         /\ Len(d.session.qos2_packets) <= MaxInflight
         /\ conn' = [conn EXCEPT
               ![c].session = Some(r.session),
               ![c].mailbox = EmptiedMailbox(@),
               ![c].looped = conn[c].resumed,
               ![c].owed = PopDelivered(@, d.wrote)]
         /\ io' = Event(c, "LoopTail", 0, d.wrote \o r.wrote, <<>>)
         /\ UNCHANGED <<now, require_auth, topics, dc_sessions, away>>

\* session.clean_session() and session.retry_packets() after the mailbox
\* loop returned d
LoopTailAfterDrain(c, d) ==
    LoopTailDone(c, d,
                 ActiveSession_retry_packets(
                     ActiveSession_clean_session(d.session), now))

LoopTail(c, alg) ==
    /\ InSession(c)
    /\ LoopTailAfterDrain(
          c, DrainMsgs(Session(c), PendingMsgs(conn[c].mailbox), now, alg))

\* the broker clock advances by a second
Tick ==
    /\ now < MaxTime
    /\ now' = now + 1
    /\ io' = Event(0, "Tick", 0, <<>>, <<>>)
    /\ UNCHANGED <<require_auth, topics, dc_sessions, conn, away>>

(***************************************************************************)
(* The clients: the packets they may send.                                 *)
(***************************************************************************)
NoWill == None
Will(topic, message, qos, retain) ==
    Some([will_topic |-> topic, will_message |-> message,
          will_qos |-> qos, will_retain |-> retain])

ConnectPacket(client_id, clean_session, keep_alive, will) ==
    [client_id |-> client_id, clean_session |-> clean_session,
     keep_alive |-> keep_alive, will |-> will]

\* a PUBLISH as decoded from the wire
InboundPublish(topic, payload, qos, id, dup, retain) ==
    [dup |-> dup, qos |-> qos, retain |-> retain, topic_name |-> topic,
     packet_id |-> IF qos = 0 THEN None ELSE Some(id), payload |-> payload]

TopicFilter(filter, qos) == [ok |-> TRUE, filter |-> filter, qos |-> qos]

\* the orders in which the HashMap of topics may iterate
TopicOrders == {<<TopicA, TopicB>>, <<TopicB, TopicA>>}

\* packet ids a client uses for its own PUBLISH and SUBSCRIBE packets
ClientPacketIds == {2, 3}
\* packet ids of the broker's own PUBLISH packets that a client answers
BrokerPacketIds == {2, 4}

\* the only client of the specifications that have one connection
OneClient == ConnectPacket("c1", TRUE, 0, NoWill)

\* the QoS 2 PUBLISH packets a client sends, first and repeated
Qos2Publishes ==
    {InboundPublish(TopicA, "p", 2, id, dup, FALSE) :
        id \in ClientPacketIds, dup \in BOOLEAN}

\* the receiver-side list of c holds an accepted PUBLISH id awaiting PUBREL
AwaitsRelease(c, id) ==
    /\ InSession(c)
    /\ \E i \in 1..Len(Session(c).qos2_packets) :
          /\ Session(c).qos2_packets[i].new_id = id
          /\ Session(c).qos2_packets[i].stage = "Publish"

\* a client that follows the protocol repeats a QoS 2 PUBLISH (DUP=1) only
\* while its exchange is open, and opens no second exchange under that id
FollowsProtocol(c, inbound) ==
    inbound.dup <=> AwaitsRelease(c, Unwrap(inbound.packet_id))

(***************************************************************************)
(* SpecInbound: one client publishing at QoS 2 and releasing.              *)
(***************************************************************************)
NextInbound ==
    \/ Accept(1)
    \/ Connect(1, OneClient, "none")
    \/ \E inbound \in Qos2Publishes, alg \in BinSearchAlgs :
          FollowsProtocol(1, inbound) /\ Publish(1, inbound, alg)
    \/ \E id \in ClientPacketIds : PubRel(1, id)
    \/ \E alg \in BinSearchAlgs : LoopTail(1, alg)

SpecInbound == Init /\ [][NextInbound]_vars

\* the step handled an inbound QoS 2 PUBLISH (the only PUBLISH that is not
\* routed by the Publish arm itself)
HandledQos2Publish == io.kind = "Publish" /\ io.routed = <<>>

\* C1: a QoS 2 message that arrived once or several times (DUP=1, same id,
\* before its PUBREL) is routed at most once, and each of its arrivals is
\* answered with PUBREC carrying its id.
C1_DuplicateRoutedOnce ==
    /\ \A c \in Conns : \A a \in 1..MaxArrivals : conn[c].routes[a] <= 1
    /\ HandledQos2Publish => io.wrote = <<OutAck("PUBREC", io.id)>>

\* C2: when PUBREL(I) arrives for an accepted inbound QoS 2 PUBLISH I, the
\* message is routed exactly once and PUBCOMP(I) is written, also when I was
\* used by an earlier, completed exchange.
C2_ReleaseRoutesAndCompletes ==
    [][\A c \in Conns : \A id \in ClientPacketIds :
          AwaitsRelease(c, id) /\ PubRel(c, id)
          => /\ io'.wrote = <<OutAck("PUBCOMP", id)>>
             /\ Len(io'.routed) = 1]_vars

(***************************************************************************)
(* SpecForward: one client subscribed to the topic it publishes to, at     *)
(* QoS 1 and QoS 2 on either side, with and without RETAIN.                *)
(***************************************************************************)
ForwardPublishes ==
    {InboundPublish(TopicA, "p", qos, 2, FALSE, retain) :
        qos \in {1, 2}, retain \in BOOLEAN}

NextForward ==
    \/ Accept(1)
    \/ Connect(1, OneClient, "none")
    \/ \E qos \in {1, 2}, order \in TopicOrders, alg \in BinSearchAlgs :
          Subscribe(1, 3, <<TopicFilter(TopicA, qos)>>, order, alg)
    \/ \E inbound \in ForwardPublishes, alg \in BinSearchAlgs :
          FollowsProtocol(1, inbound) /\ Publish(1, inbound, alg)
    \/ PubRel(1, 2)
    \/ \E id \in BrokerPacketIds : PubAck(1, id)
    \/ \E alg \in BinSearchAlgs : LoopTail(1, alg)

SpecForward == Init /\ [][NextForward]_vars

\* the sender-side list of session for the QoS of packet p
SenderList(session, p) ==
    IF p.qos = 1 THEN session.qos1_packets ELSE session.qos2_packets

\* w is a QoS 1 or QoS 2 PUBLISH written to a subscriber for the first time
ForwardedPublish(w) ==
    /\ w.type = "PUBLISH"
    /\ w.via \in {"forward", "downgrade", "retained"}
    /\ w.pkt.qos >= 1

\* C3: every QoS 1 or QoS 2 PUBLISH written to a subscriber (forwarded at
\* equal QoS, downgraded to QoS 1, or a retained message) carries a non-zero
\* broker-allocated packet id, and the sender-side list of the session holds
\* an entry in stage Origin under that id.
C3_ForwardedCarriesBrokerId ==
    \A i \in 1..Len(io.wrote) :
        ForwardedPublish(io.wrote[i])
        => /\ io.wrote[i].id # 0
           /\ InSession(io.conn)
           /\ \E j \in 1..Len(SenderList(Session(io.conn), io.wrote[i].pkt)) :
                 LET e == SenderList(Session(io.conn), io.wrote[i].pkt)[j]
                 IN  e.new_id = io.wrote[i].id /\ e.stage = "Origin"

(***************************************************************************)
(* SpecQos: one client subscribed at QoS 2 to the topic it publishes to at *)
(* QoS 2, so that its QoS 2 list holds receiver-side and sender-side       *)
(* entries.                                                                *)
(***************************************************************************)
NextQos ==
    \/ Accept(1)
    \/ Connect(1, OneClient, "none")
    \/ \E alg \in BinSearchAlgs :
          Subscribe(1, 3, <<TopicFilter(TopicA, 2)>>, <<TopicA, TopicB>>, alg)
    \/ \E inbound \in Qos2Publishes, alg \in BinSearchAlgs :
          FollowsProtocol(1, inbound) /\ Publish(1, inbound, alg)
    \/ \E id \in ClientPacketIds : PubRel(1, id)
    \/ \E id \in BrokerPacketIds : PubRec(1, id)
    \/ \E id \in BrokerPacketIds : PubComp(1, id)
    \/ \E alg \in BinSearchAlgs : LoopTail(1, alg)

SpecQos == Init /\ [][NextQos]_vars

\* entry i of the QoS 2 list of c is the broker's own PUBLISH id, in stage
HoldsSenderEntry(c, i, id, stage) ==
    /\ InSession(c)
    /\ i <= Len(Session(c).qos2_packets)
    /\ Session(c).qos2_packets[i].new_id = id
    /\ Session(c).qos2_packets[i].stage = stage

\* C4: for a broker-originated QoS 2 entry B in stage Origin, PUBREC(B)
\* moves it to Rec and PUBREL(B) is written; in stage Rec, PUBCOMP(B) moves
\* it to Comp; whatever other entries, receiver-side ones included, the
\* QoS 2 list holds.
C4_SenderSideAdvances ==
    [][\A c \in Conns : \A id \in BrokerPacketIds : \A i \in 1..MaxInflight :
          /\ HoldsSenderEntry(c, i, id, "Origin") /\ PubRec(c, id)
             => /\ Session(c)'.qos2_packets[i].stage = "Rec"
                /\ io'.wrote = <<OutAck("PUBREL", id)>>
          /\ HoldsSenderEntry(c, i, id, "Rec") /\ PubComp(c, id)
             => Session(c)'.qos2_packets[i].stage = "Comp"]_vars

(***************************************************************************)
(* SpecRetry: one client subscribed at QoS 2 to the topic it publishes to, *)
(* answering or not, while the clock runs.                                 *)
(***************************************************************************)
\* a client whose keep-alive outlasts the clock of the model
PatientClient == ConnectPacket("c1", TRUE, MaxTime + 1, NoWill)

NextRetry ==
    \/ Accept(1)
    \/ Connect(1, PatientClient, "none")
    \/ \E alg \in BinSearchAlgs :
          Subscribe(1, 3, <<TopicFilter(TopicA, 2)>>, <<TopicA, TopicB>>, alg)
    \/ \E id \in ClientPacketIds, alg \in BinSearchAlgs :
          /\ ~AwaitsRelease(1, id)
          /\ Publish(1, InboundPublish(TopicA, "p", 2, id, FALSE, FALSE), alg)
    \/ \E id \in ClientPacketIds : PubRel(1, id)
    \/ PubRec(1, 2)
    \/ \E alg \in BinSearchAlgs : LoopTail(1, alg)
    \/ Tick

SpecRetry == Init /\ [][NextRetry]_vars

\* entry i of the QoS 2 list of c is sender-side, unanswered and timed out,
\* and the next housekeeping pass neither adds nor removes entries
HoldsTimedOut(c, i) ==
    /\ InSession(c)
    /\ PendingMsgs(conn[c].mailbox) = <<>>
    /\ Len(Session(c).qos2_packets) <= CleanMax
    /\ i <= Len(Session(c).qos2_packets)
    /\ Session(c).qos2_packets[i].stage \in {"Origin", "Rec"}
    /\ is_timed_out(Session(c).qos2_packets[i], now)

\* the packet that retransmits the sender-side entry e
RetransmissionOf(e) ==
    IF e.stage = "Origin"
    THEN OutPublish(set_dup(set_id(e.packet, e.new_id), TRUE), "retry")
    ELSE OutAck("PUBREL", e.new_id)

\* C5: on every housekeeping pass each timed-out sender-side QoS 2 entry is
\* retransmitted, as PUBLISH with DUP=1 in stage Origin and as PUBREL in
\* stage Rec, and its retry interval is doubled.
C5_TimedOutRetransmitted ==
    [][\A c \in Conns : \A i \in 1..MaxInflight : \A alg \in BinSearchAlgs :
          HoldsTimedOut(c, i) /\ LoopTail(c, alg)
          => /\ \E k \in 1..Len(io'.wrote) :
                   io'.wrote[k] = RetransmissionOf(Session(c).qos2_packets[i])
             /\ Session(c)'.qos2_packets[i].retry_duration
                   = 2 * Session(c).qos2_packets[i].retry_duration]_vars

(***************************************************************************)
(* SpecConnect: one client connecting again and again, with and without    *)
(* clean session, with and without credentials, publishing at QoS 2, and   *)
(* its connection ending in every way, while the clock runs.               *)
(***************************************************************************)
ConnectKeepAlives == {0, 1}

ConnectPackets ==
    {ConnectPacket("c1", clean_session, keep_alive, NoWill) :
        clean_session \in BOOLEAN, keep_alive \in ConnectKeepAlives}

NextConnect ==
    \/ Accept(1)
    \/ FirstPingReq(1)
    \/ FirstPacketError(1)
    \/ \E packet \in ConnectPackets, cred \in Credentials :
          Connect(1, packet, cred)
    \/ \E packet \in ConnectPackets, cred \in Credentials :
          ConnectRejected(1, packet, cred)
    \/ \E alg \in BinSearchAlgs :
          /\ ~AwaitsRelease(1, 2)
          /\ Publish(1, InboundPublish(TopicA, "p", 2, 2, FALSE, FALSE), alg)
    \/ PingReq(1)
    \/ Disconnect(1)
    \/ InvalidPacket(1)
    \/ TransportError(1)
    \/ KeepAliveClose(1)
    \/ \E alg \in BinSearchAlgs : LoopTail(1, alg)
    \/ Tick

SpecConnect == Init /\ [][NextConnect]_vars

\* the registry entry of client k
Entry(k) == dc_sessions[k]

\* C8: when a connection that completed the handshake ends (error,
\* DISCONNECT or keep-alive timeout), the registry holds an entry for its
\* client id exactly if the connection was opened with clean session 0.
C8_StoredIffPersistent ==
    [][\A c \in Conns :
          InSession(c) /\ conn'[c].pc = "closed"
          => (IsSome(dc_sessions'[Session(c).client_id])
              <=> ~conn[c].clean_session)
      ]_vars


(***************************************************************************)
(* Keep-alive: one connection whose client announces a keep-alive of K     *)
(* seconds, sends PINGREQ now and then, and is silent in between.          *)
(***************************************************************************)
\* the keep-alive values the client announces, in seconds
KeepAlives == {2, 3}

KeepAliveClients ==
    {ConnectPacket("c1", TRUE, K, NoWill) : K \in KeepAlives}

NextKeepAlive ==
    \/ Accept(1)
    \/ \E packet \in KeepAliveClients, cred \in Credentials :
          Connect(1, packet, cred)
    \/ \E alg \in BinSearchAlgs :
          /\ ~AwaitsRelease(1, 2)
          /\ Publish(1, InboundPublish(TopicA, "p", 2, 2, FALSE, FALSE), alg)
    \/ PingReq(1)
    \/ KeepAliveClose(1)
    \/ \E alg \in BinSearchAlgs : LoopTail(1, alg)
    \/ Tick

SpecKeepAlive == Init /\ [][NextKeepAlive]_vars

\* seconds since the last frame of c arrived
Silence(c) == now - Session(c).last_read

\* C10: a connection with keep-alive K > 0 whose last frame arrived less
\* than 1.5 x K seconds ago is not closed for inactivity
C10_ClosedOnlyAfterOneAndAHalf ==
    [][\A c \in Conns :
          KeepAliveClose(c) /\ Session(c).keep_alive > 0
          => 2 * Silence(c) >= 3 * Session(c).keep_alive]_vars


(***************************************************************************)
(* Wills: connection 1 is a client with a will on TopicA, connection 2 a   *)
(* client that publishes to TopicA and subscribes to it at time 0.         *)
(***************************************************************************)
Wills == {Will(TopicA, "gone", 1, retain) : retain \in BOOLEAN}

WillClients == {ConnectPacket("c1", TRUE, 1, will) : will \in Wills}

Watcher == ConnectPacket("c2", TRUE, MaxTime + 1, NoWill)

NextWill ==
    \/ Accept(1)
    \/ \E packet \in WillClients : Connect(1, packet, "ok")
    \/ now = 0 /\ Accept(2)
    \/ now = 0 /\ Connect(2, Watcher, "ok")
    \/ \E alg \in BinSearchAlgs :
          /\ now = 0
          /\ Publish(2, InboundPublish(TopicA, "p", 0, 0, FALSE, FALSE), alg)
    \/ \E order \in TopicOrders, alg \in BinSearchAlgs :
          /\ now = 0
          /\ Subscribe(2, 3, <<TopicFilter(TopicA, 0)>>, order, alg)
    \/ Disconnect(1)
    \/ InvalidPacket(1)
    \/ TransportError(1)
    \/ KeepAliveClose(1)
    \/ \E alg \in BinSearchAlgs : LoopTail(2, alg)
    \/ Tick

SpecWill == Init /\ [][NextWill]_vars

\* packet is the will message with the will's QoS
IsWill(packet, will) ==
    /\ packet.topic_name = will.will_topic
    /\ packet.payload = will.will_message
    /\ packet.qos = will.will_qos

\* the receivers cn2 holds for topic have packet as their newest message
Received(cn2, topic, packet) ==
    \A i \in 1..Len(cn2.mailbox) :
        cn2.mailbox[i].topic = topic
        => /\ cn2.mailbox[i].queue # <<>>
           /\ cn2.mailbox[i].queue[Len(cn2.mailbox[i].queue)] = packet

\* the step routes the will once, retains it if asked to, and hands it to
\* the subscribers of the will topic
WillPublished(c, will) ==
    /\ Len(io'.routed) = 1
    /\ IsWill(io'.routed[1], will)
    /\ will.will_retain
       => topics'[will.will_topic].retained_message = Some(io'.routed[1])
    /\ \A c2 \in Conns \ {c} :
          Received(conn'[c2], will.will_topic, io'.routed[1])

\* C9: when the connection of a session with a will ends, the will is
\* routed exactly once (with its QoS, retained if its retain flag is set,
\* reaching the subscribers of its topic) unless the connection ends with
\* DISCONNECT, and then it is not routed
C9_WillPublishedUnlessDisconnect ==
    [][\A c \in Conns :
          InSession(c) /\ IsSome(Session(c).will) /\ conn'[c].pc = "closed"
          => IF io'.kind = "Disconnect"
             THEN io'.routed = <<>>
             ELSE WillPublished(c, Unwrap(Session(c).will))]_vars


(***************************************************************************)
(* Persistent sessions: connection 1 is a client with clean_session=0 that *)
(* subscribes to TopicA with QoS 2 and loses its transport, connection 2 a *)
(* client that publishes QoS 2 messages to TopicA.                         *)
(***************************************************************************)
Persistent == ConnectPacket("c1", FALSE, 0, NoWill)

Publisher == ConnectPacket("c2", TRUE, 0, NoWill)

NextResume ==
    \/ \E c \in {1, 2} : Accept(c)
    \/ Connect(1, Persistent, "ok")
    \/ Connect(2, Publisher, "ok")
    \/ \E order \in TopicOrders, alg \in BinSearchAlgs :
          Subscribe(1, 3, <<TopicFilter(TopicA, 2)>>, order, alg)
    \/ TransportError(1)
    \/ \E alg \in BinSearchAlgs : LoopTail(1, alg)
    \/ \E alg \in BinSearchAlgs :
          Publish(2, InboundPublish(TopicA, "p", 0, 0, FALSE, FALSE), alg)
    \/ \E id \in ClientPacketIds, alg \in BinSearchAlgs :
          /\ ~AwaitsRelease(2, id)
          /\ Publish(2, InboundPublish(TopicA, "p", 2, id, FALSE, FALSE), alg)
    \/ \E id \in ClientPacketIds : PubRel(2, id)

SpecResume == Init /\ [][NextResume]_vars

\* C7: a client that resumed its persistent session (session_present=1)
\* has been sent, once the session loop has run, every QoS 2 message that
\* was routed to a topic matching its QoS 2 subscription while it was
\* away, in the order they were routed
C7_ResumedReceivesMissed ==
    \A c \in Conns :
        InSession(c) /\ conn[c].resumed /\ conn[c].looped
        => conn[c].owed = <<>>

(***************************************************************************)
(* Retained messages: one client that publishes to TopicA with and without *)
(* RETAIN, with and without payload, and subscribes to TopicA.             *)
(***************************************************************************)
RetainPublishes ==
    {InboundPublish(TopicA, "p", 0, 2, FALSE, retain) : retain \in BOOLEAN}
    \cup {InboundPublish(TopicA, "q", 1, 2, FALSE, retain) : retain \in BOOLEAN}
    \cup {InboundPublish(TopicA, "", 0, 2, FALSE, TRUE)}

RetainFilters == {TopicFilter(TopicA, qos) : qos \in QosLevels}

NextRetain ==
    \/ Accept(1)
    \/ Connect(1, PatientClient, "ok")
    \/ \E inbound \in RetainPublishes, alg \in BinSearchAlgs :
          Publish(1, inbound, alg)
    \/ \E f \in RetainFilters, order \in TopicOrders, alg \in BinSearchAlgs :
          Subscribe(1, 3, <<f>>, order, alg)
    \/ \E id \in BrokerPacketIds : PubAck(1, id)
    \/ \E alg \in BinSearchAlgs : LoopTail(1, alg)

SpecRetain == Init /\ [][NextRetain]_vars

\* the retained slot of a topic
Retained(tps, topic) == tps[topic].retained_message

\* the PUBLISH packets among those written that deliver a retained message
RetainedDeliveries(wrote) ==
    {i \in 1..Len(wrote) :
        wrote[i].type = "PUBLISH" /\ wrote[i].via = "retained"}

\* wrote holds a PUBLISH on the topic of m with the payload of m and RETAIN=1
DeliversRetained(wrote, m) ==
    \E i \in 1..Len(wrote) :
        /\ wrote[i].type = "PUBLISH"
        /\ wrote[i].pkt.topic_name = m.topic_name
        /\ wrote[i].pkt.payload = m.payload
        /\ wrote[i].pkt.retain

\* C11: a PUBLISH with RETAIN=1 and a payload leaves its message in the
\* retained slot of its topic, whether or not the topic existed, and a
\* SUBSCRIBE to a filter matching a topic whose slot is filled is answered
\* with a PUBLISH of that message with RETAIN=1
C11_RetainedReachesLaterSubscriber ==
    [][/\ \A inbound \in RetainPublishes, alg \in BinSearchAlgs :
             Publish(1, inbound, alg) /\ inbound.retain /\ inbound.payload # ""
             => /\ IsSome(Retained(topics', inbound.topic_name))
                /\ Unwrap(Retained(topics', inbound.topic_name)).payload
                      = inbound.payload
       /\ \A f \in RetainFilters, order \in TopicOrders, alg \in BinSearchAlgs :
             /\ Subscribe(1, 3, <<f>>, order, alg)
             /\ IsSome(Retained(topics, f.filter))
             => DeliversRetained(io'.wrote, Unwrap(Retained(topics, f.filter)))
      ]_vars

\* the retained slots of every topic but topic are as they were
OtherSlotsKept(topic) ==
    \A t \in TopicNames \ {topic} : Retained(topics', t) = Retained(topics, t)

\* what a PUBLISH does to the retained slots according to its RETAIN flag
RetainEffect(inbound) ==
    IF ~inbound.retain
    THEN \A t \in TopicNames : Retained(topics', t) = Retained(topics, t)
    ELSE /\ OtherSlotsKept(inbound.topic_name)
         /\ IF inbound.payload = ""
            THEN Retained(topics', inbound.topic_name) = None
            ELSE /\ IsSome(Retained(topics', inbound.topic_name))
                 /\ Unwrap(Retained(topics', inbound.topic_name)).payload
                       = inbound.payload

\* C12: a PUBLISH with RETAIN=1 replaces the retained slot of its topic
\* (payload) or clears it (no payload) and touches no other slot, a PUBLISH
\* with RETAIN=0 and every other step leave all slots as they were, and a
\* SUBSCRIBE to a topic whose slot is empty delivers no retained message
C12_RetainedSlotFollowsRetainFlag ==
    [][/\ \A inbound \in RetainPublishes, alg \in BinSearchAlgs :
             Publish(1, inbound, alg) => RetainEffect(inbound)
       /\ (\E t \in TopicNames : Retained(topics', t) # Retained(topics, t))
             => \E inbound \in RetainPublishes, alg \in BinSearchAlgs :
                   Publish(1, inbound, alg)
       /\ \A f \in RetainFilters, order \in TopicOrders, alg \in BinSearchAlgs :
             /\ Subscribe(1, 3, <<f>>, order, alg)
             /\ ~IsSome(Retained(topics, f.filter))
             => RetainedDeliveries(io'.wrote) = {}
      ]_vars

C14_RetainedQosIsMinimum ==
    [][\A f \in RetainFilters, order \in TopicOrders, alg \in BinSearchAlgs :
          Subscribe(1, 3, <<f>>, order, alg)
          => \A i \in RetainedDeliveries(io'.wrote) :
                io'.wrote[i].pkt.qos
                   = Min(f.qos, Unwrap(Retained(topics, f.filter)).qos)]_vars

(***************************************************************************)
(* Retained deliveries and their retransmission: one client that publishes *)
(* to TopicA, subscribes to it with QoS 0 and lets time pass.              *)
(***************************************************************************)
\* the seconds the egress specification lets pass
EgressTime == 2

EgressPublishes ==
    {InboundPublish(TopicA, "p", 0, 2, FALSE, FALSE),
     InboundPublish(TopicA, "q", 1, 2, FALSE, TRUE)}

NextEgress ==
    \/ Accept(1)
    \/ Connect(1, PatientClient, "ok")
    \/ \E inbound \in EgressPublishes, alg \in BinSearchAlgs :
          Publish(1, inbound, alg)
    \/ \E order \in TopicOrders, alg \in BinSearchAlgs :
          Subscribe(1, 3, <<TopicFilter(TopicA, 0)>>, order, alg)
    \/ \E alg \in BinSearchAlgs : LoopTail(1, alg)
    \/ now < EgressTime /\ Tick

SpecEgress == Init /\ [][NextEgress]_vars

Subscriber == ConnectPacket("c2", TRUE, 0, NoWill)

\* c holds a QoS 2 PUBLISH that it accepted and has not released yet
AwaitsAnyRelease(c) == \E id \in ClientPacketIds : AwaitsRelease(c, id)

NextOrder ==
    \/ \E c \in {1, 2} : Accept(c)
    \/ Connect(1, OneClient, "ok")
    \/ Connect(2, Subscriber, "ok")
    \/ \E id \in ClientPacketIds, alg \in BinSearchAlgs :
          /\ ~AwaitsAnyRelease(1)
          /\ Publish(1, InboundPublish(TopicA, "p", 2, id, FALSE, FALSE), alg)
    \/ \E alg \in BinSearchAlgs :
          /\ AwaitsAnyRelease(1)
          /\ Publish(1, InboundPublish(TopicA, "q", 0, 0, FALSE, FALSE), alg)
    \/ \E id \in ClientPacketIds : PubRel(1, id)
    \/ \E order \in TopicOrders, alg \in BinSearchAlgs :
          Subscribe(2, 3, <<TopicFilter(TopicA, 0)>>, order, alg)
    \/ \E alg \in BinSearchAlgs : LoopTail(2, alg)

SpecOrder == Init /\ [][NextOrder]_vars

\* the payloads of the messages of a sequence of PUBLISH packets
Payloads(packets) == [i \in 1..Len(packets) |-> packets[i].payload]

RECURSIVE ForwardedPackets(_)
\* the packets the mailbox loop wrote, in the order it wrote them
ForwardedPackets(wrote) ==
    IF wrote = <<>> THEN <<>>
    ELSE IF /\ Head(wrote).type = "PUBLISH"
            /\ Head(wrote).via \in {"forward", "downgrade"}
         THEN <<Head(wrote).pkt>> \o ForwardedPackets(Tail(wrote))
         ELSE ForwardedPackets(Tail(wrote))

\* the messages waiting in the receivers of a mailbox, slot after slot
Waiting(mailbox) ==
    [i \in 1..Len(PendingMsgs(mailbox)) |-> PendingMsgs(mailbox)[i].packet]

IsSuffix(s, t) ==
    Len(s) <= Len(t) /\ s = SubSeq(t, Len(t) - Len(s) + 1, Len(t))

\* the step put m behind what waited in the receivers cn holds for its topic
QueuedBehind(c, m) ==
    /\ Len(conn'[c].mailbox) = Len(conn[c].mailbox)
    /\ \A i \in 1..Len(conn[c].mailbox) :
          conn[c].mailbox[i].topic = m.topic_name
          => LET was == conn[c].mailbox[i].queue
                 is == conn'[c].mailbox[i].queue
             IN  /\ is # <<>>
                 /\ is[Len(is)] = m
                 /\ IsSuffix(SubSeq(is, 1, Len(is) - 1), was)

\* C15 as amended: a message routed to a topic is queued behind the
\* messages routed to it before, in every receiver of the topic, and the
\* session loop of a subscriber writes the messages that wait in a
\* receiver in the order they were queued
C15_SentInRoutedOrder ==
    [][/\ io'.routed # <<>>
          => \A c \in Conns : QueuedBehind(c, io'.routed[1])
       /\ \A c \in Conns, alg \in BinSearchAlgs :
             LoopTail(c, alg) /\ io'.kind = "LoopTail"
             => /\ Payloads(ForwardedPackets(io'.wrote))
                      = Payloads(Waiting(conn[c].mailbox))
                /\ Waiting(conn'[c].mailbox) = <<>>
      ]_vars

\* a subscriber has been sent two messages in one pass of its loop
C15_Witness ==
    /\ io.kind = "LoopTail"
    /\ Len(ForwardedPackets(io.wrote)) >= 2
    /\ Payloads(ForwardedPackets(io.wrote)) = <<"q", "p">>

\* C15: a subscriber is sent the messages of a topic in the order in which
\* the broker received them: every "q" was received after the "p" that is
\* routed next, so no "q" is written before a "p"
C15_SentInReceivedOrder ==
    \A i, j \in 1..Len(ForwardedPackets(io.wrote)) :
        /\ i < j
        /\ ForwardedPackets(io.wrote)[j].payload = "p"
        => ForwardedPackets(io.wrote)[i].payload # "q"

(***************************************************************************)
(* SUBSCRIBE on the wire (mqtt-core/src/codec/v4/subscribe.rs).  The       *)
(* variable header and payload are a sequence of bytes; a string is the    *)
(* sequence of its bytes.                                                  *)
(***************************************************************************)
\* Buf::get_u16: panics when fewer than two bytes remain
get_u16(bytes) ==
    IF Len(bytes) < 2
    THEN [panicked |-> TRUE, value |-> 0, rest |-> bytes]
    ELSE [panicked |-> FALSE, value |-> bytes[1] * 256 + bytes[2],
          rest |-> SubSeq(bytes, 3, Len(bytes))]

\* decode_utf8 after decode_u16_len read g: the length must fit what
\* remains, the two bytes of the length are consumed either way
Utf8After(g) ==
    IF g.panicked
    THEN [panicked |-> TRUE, ok |-> FALSE, string |-> <<>>, rest |-> g.rest]
    ELSE IF g.value > Len(g.rest)
    THEN [panicked |-> FALSE, ok |-> FALSE, string |-> <<>>, rest |-> g.rest]
    ELSE [panicked |-> FALSE, ok |-> TRUE,
          string |-> SubSeq(g.rest, 1, g.value),
          rest |-> SubSeq(g.rest, g.value + 1, Len(g.rest))]

decode_utf8(bytes) == Utf8After(get_u16(bytes))

\* the strings of the model by their bytes
TextOf(string) ==
    CASE string = <<>> -> ""
      [] string = <<35>> -> "#"
      [] string = <<43>> -> "+"
      [] string = <<97>> -> "a"
      [] string = <<98>> -> "b"
      [] string = <<112>> -> "p"
      [] string = <<36, 115>> -> "$s"
      [] OTHER -> "?"

RECURSIVE SplitSlash(_, _)
\* str.split('/'): the segments of string, cur being the segment begun
SplitSlash(string, cur) ==
    IF string = <<>> THEN <<cur>>
    ELSE IF Head(string) = 47
         THEN <<cur>> \o SplitSlash(Tail(string), <<>>)
         ELSE SplitSlash(Tail(string), Append(cur, Head(string)))

\* TopicToken::from_str
TopicToken_from_str(segment) ==
    IF segment # <<>> /\ Head(segment) = 36 THEN DollarTok(TextOf(segment))
    ELSE IF segment = <<35>> THEN MultiLevel
    ELSE IF segment = <<43>> THEN SingleLevel
    ELSE Str(TextOf(segment))

\* the tokens of the segments of a filter string
TokensOf(segments) ==
    [i \in 1..Len(segments) |-> TopicToken_from_str(segments[i])]

\* TopicFilter::from_str: no empty filter, '#' only as the last segment
TopicFilter_from_str(string) ==
    IF string = <<>> THEN [ok |-> FALSE, filter |-> <<>>]
    ELSE IF \E i \in 1..(Len(TokensOf(SplitSlash(string, <<>>))) - 1) :
               TokensOf(SplitSlash(string, <<>>))[i] = MultiLevel
    THEN [ok |-> FALSE, filter |-> <<>>]
    ELSE [ok |-> TRUE, filter |-> TokensOf(SplitSlash(string, <<>>))]

\* TopicFilter::decode after decode_utf8 returned u
FilterAfter(u) ==
    IF u.panicked \/ ~u.ok
    THEN [panicked |-> u.panicked, ok |-> FALSE, filter |-> <<>>,
          rest |-> u.rest]
    ELSE [panicked |-> FALSE, ok |-> TopicFilter_from_str(u.string).ok,
          filter |-> TopicFilter_from_str(u.string).filter, rest |-> u.rest]

TopicFilter_decode(bytes) == FilterAfter(decode_utf8(bytes))

\* TopicFilterResult::Err
FilterErr == [ok |-> FALSE, filter |-> <<>>, qos |-> 0]

RECURSIVE DecodeFilters(_, _)
RECURSIVE DecodedFilter(_, _)
\* the loop of SubscribePacket::decode, payload being what it has pushed
DecodeFilters(bytes, payload) ==
    DecodedFilter(TopicFilter_decode(bytes), payload)

\* the body of the loop after TopicFilter::decode returned f: the Err arm
\* pushes and loops, the Ok arm reads the QoS byte (get_u8 panics when no
\* byte is left, try_into fails above 2) and breaks when nothing remains
DecodedFilter(f, payload) ==
    IF f.panicked
    THEN [panicked |-> TRUE, ok |-> FALSE, payload |-> payload]
    ELSE IF ~f.ok
    THEN DecodeFilters(f.rest, Append(payload, FilterErr))
    ELSE IF f.rest = <<>>
    THEN [panicked |-> TRUE, ok |-> FALSE, payload |-> payload]
    ELSE IF Head(f.rest) > 2
    THEN [panicked |-> FALSE, ok |-> FALSE, payload |-> payload]
    ELSE IF Tail(f.rest) = <<>>
    THEN [panicked |-> FALSE, ok |-> TRUE,
          payload |-> Append(payload, [ok |-> TRUE, filter |-> f.filter,
                                       qos |-> Head(f.rest)])]
    ELSE DecodeFilters(Tail(f.rest),
                       Append(payload, [ok |-> TRUE, filter |-> f.filter,
                                        qos |-> Head(f.rest)]))

\* SubscribePacket::decode after get_u16 read the packet id g
SubscribeAfterId(g, d) ==
    [panicked |-> g.panicked \/ d.panicked, ok |-> ~g.panicked /\ d.ok,
     packet_id |-> g.value, payload |-> d.payload]

\* SubscribePacket::decode
SubscribePacket_decode(bytes) ==
    IF Len(bytes) < 2
    THEN [panicked |-> TRUE, ok |-> FALSE, packet_id |-> 0, payload |-> <<>>]
    ELSE SubscribeAfterId(get_u16(bytes),
                          DecodeFilters(get_u16(bytes).rest, <<>>))

\* a SUBSCRIBE read from the stream of c: a panic of the decoder ends the
\* task, an error of the decoder is an error of read_packet, and a decoded
\* packet reaches the Subscribe arm
SubscribeDecoded(c, d, order, alg) ==
    IF d.panicked
    THEN InSession(c) /\ Panicked(c, "Panic")
    ELSE IF ~d.ok
    THEN TransportError(c)
    ELSE Subscribe(c, d.packet_id, d.payload, order, alg)

SubscribeWire(c, bytes, order, alg) ==
    SubscribeDecoded(c, SubscribePacket_decode(bytes), order, alg)

\* the bytes a client writes for one filter string and its requested QoS
WireFilter(f) ==
    <<Len(f.string) \div 256, Len(f.string) % 256>> \o f.string \o <<f.qos>>

RECURSIVE WireFilters(_)
WireFilters(filters) ==
    IF filters = <<>> THEN <<>>
    ELSE WireFilter(Head(filters)) \o WireFilters(Tail(filters))

\* the variable header and payload of a SUBSCRIBE with packet id id
SubscribeBytes(id, filters) ==
    <<id \div 256, id % 256>> \o WireFilters(filters)

(***************************************************************************)
(* SUBSCRIBE and SUBACK: one client that publishes to TopicA and TopicB    *)
(* and subscribes with one or two filters: "a", "b", the empty string and  *)
(* "#/a", of which the last two do not parse.                              *)
(***************************************************************************)
RequestedFilters ==
    {[string |-> <<97>>, qos |-> 1], [string |-> <<98>>, qos |-> 2],
     [string |-> <<>>, qos |-> 0], [string |-> <<35, 47, 97>>, qos |-> 1]}

FilterLists ==
    {<<f>> : f \in RequestedFilters}
    \cup {<<f, g>> : f \in RequestedFilters, g \in RequestedFilters}

NextSubscribe ==
    \/ Accept(1)
    \/ Connect(1, OneClient, "ok")
    \/ \E topic \in TopicNames, alg \in BinSearchAlgs :
          Publish(1, InboundPublish(topic, "p", 0, 0, FALSE, FALSE), alg)
    \/ \E fs \in FilterLists, order \in TopicOrders, alg \in BinSearchAlgs :
          SubscribeWire(1, SubscribeBytes(3, fs), order, alg)
    \/ \E alg \in BinSearchAlgs : LoopTail(1, alg)

SpecSubscribe == Init /\ [][NextSubscribe]_vars

\* the SUBACK packets among those written
SubAcks(wrote) == SelectSeq(wrote, LAMBDA w : w.type = "SUBACK")

\* the return code the requested filter f is answered with
ReturnCode(f) ==
    IF TopicFilter_from_str(f.string).ok THEN f.qos ELSE SUBACK_FAILURE

\* C16: a SUBSCRIBE with packet id P and filters f1..fn is answered with
\* one SUBACK with packet id P and n return codes in request order, the
\* requested QoS for a filter that parses and 0x80 for one that does not,
\* and the connection stays open
C16_SubAckCodePerFilter ==
    [][\A fs \in FilterLists, order \in TopicOrders, alg \in BinSearchAlgs :
          SubscribeWire(1, SubscribeBytes(3, fs), order, alg)
          => /\ conn'[1].pc = "session"
             /\ Len(SubAcks(io'.wrote)) = 1
             /\ SubAcks(io'.wrote)[1].id = 3
             /\ SubAcks(io'.wrote)[1].codes
                   = [i \in 1..Len(fs) |-> ReturnCode(fs[i])]]_vars

(***************************************************************************)
(* UNSUBSCRIBE: one client that publishes, subscribes and unsubscribes.    *)
(* A message is "p" when the client holds a slot for its topic at the time *)
(* it is published and "q" when it holds none.                             *)
(***************************************************************************)
UnsubscribeFilters ==
    {<<TopicA>>, <<TopicB>>, <<TopicA, TopicB>>,
     <<<<MultiLevel>>>>, <<<<SingleLevel>>>>}

SubscribedFilters ==
    {TopicFilter(f, qos) : f \in {TopicA, TopicB, <<MultiLevel>>},
                           qos \in {0, 1}}

\* the mailbox holds a slot for topic
HoldsSlot(mailbox, topic) ==
    \E i \in 1..Len(mailbox) : mailbox[i].topic = topic

NextUnsubscribe ==
    \/ Accept(1)
    \/ Connect(1, OneClient, "ok")
    \/ \E topic \in TopicNames, alg \in BinSearchAlgs :
          /\ HoldsSlot(conn[1].mailbox, topic)
          /\ Publish(1, PublishPacket(topic, "p"), alg)
    \/ \E topic \in TopicNames, alg \in BinSearchAlgs :
          /\ ~HoldsSlot(conn[1].mailbox, topic)
          /\ Publish(1, PublishPacket(topic, "q"), alg)
    \/ \E f \in SubscribedFilters, order \in TopicOrders,
          alg \in BinSearchAlgs :
          Subscribe(1, 3, <<f>>, order, alg)
    \/ \E id \in ClientPacketIds, filters \in UnsubscribeFilters :
          Unsubscribe(1, id, filters)
    \/ \E alg \in BinSearchAlgs : LoopTail(1, alg)

SpecUnsubscribe == Init /\ [][NextUnsubscribe]_vars

\* a one-level topic name matches the filter (MQTT 3.1.1, 4.7)
MatchesOneLevel(topic, filter) ==
    filter \in {topic, <<MultiLevel>>, <<SingleLevel>>}

\* the topic matches one of the filters
Unsubscribed(topic, filters) ==
    \E k \in 1..Len(filters) : MatchesOneLevel(topic, filters[k])

\* the slots of the mailbox whose topic matches none of the filters
SlotsKept(mailbox, filters) ==
    SelectSeq(mailbox, LAMBDA mail : ~Unsubscribed(mail.topic, filters))

FirstIsConnect(c) ==
    conn[c].pc = "first" /\ io'.kind \in {"Connect", "ConnectRejected"}

\* C18: the first packet decides: a PINGREQ is answered with PINGRESP and
\* the connection closes without a session; a CONNECT is answered with
\* CONNACK, and a session handles packets only after it; any other first
\* packet closes the connection with no session and the registry as it was;
\* a CONNECT received in a session closes the connection
C18_FirstPacketDecides ==
    [][/\ FirstPingReq(1) =>
             /\ io'.wrote = <<OutAck("PINGRESP", 0)>>
             /\ conn'[1] = ClosedConn
             /\ dc_sessions' = dc_sessions
       /\ FirstIsConnect(1) =>
             /\ Len(io'.wrote) = 1
             /\ io'.wrote[1].type = "CONNACK"
       /\ conn[1].pc # "session" /\ conn'[1].pc = "session" =>
             /\ io'.kind = "Connect"
             /\ io'.wrote[1].type = "CONNACK"
       /\ FirstPacketError(1) =>
             /\ io'.wrote = <<>>
             /\ conn'[1] = ClosedConn
             /\ dc_sessions' = dc_sessions
       /\ io'.kind = "InvalidPacket" => conn'[1].pc = "closed"
      ]_vars

\* C19: with authentication required, a CONNECT with missing or wrong
\* credentials is answered with a CONNACK that has session present 0 and
\* the return code of BadUsernameOrPassword, the connection closes, no
\* session is created and the registry is as it was
C19_RejectedConnectIsAnswered ==
    [][\A packet \in ConnectPackets, cred \in Credentials :
          ConnectRejected(1, packet, cred) =>
             /\ Len(io'.wrote) = 1
             /\ io'.wrote[1].type = "CONNACK"
             /\ io'.wrote[1].flag = FALSE
             /\ io'.wrote[1].id \in {BadUsernameOrPassword, 5}
             /\ conn'[1] = ClosedConn
             /\ dc_sessions' = dc_sessions
      ]_vars

(***************************************************************************)
(* The packet-id allocator alone (mqtt-core/src/id.rs): the generator of a *)
(* session, of either role, with ids of IdBits bits, on which ids are      *)
(* allocated with next_persistant_id and released with free_id.            *)
(***************************************************************************)
\* width of a packet id in bits (16 in the build)
IdBits == 3

\* greatest packet id (u16::MAX in the build)
IdMax == 2 ^ IdBits - 1

\* the generator of the session of connection 1
IdGen == Session(1).id_gen

\* a session that holds generator gen
SessionWithIdGen(gen) ==
    [ClosedConn EXCEPT
        !.pc = "session",
        !.session = Some([ActiveSession_from_packet(OneClient, 0)
                             EXCEPT !.id_gen = gen])]

InitIdGen ==
    /\ now = 0
    /\ require_auth = FALSE
    /\ topics = [t \in TopicNames |-> NoServerTopic]
    /\ dc_sessions = [k \in ClientIds |-> None]
    /\ away = [k \in ClientIds |-> NotAway]
    /\ io = Event(1, "new", None, <<>>, <<>>)
    /\ \E type \in IdGenTypes :
          conn = [c \in Conns |->
                     IF c = 1
                     THEN SessionWithIdGen(IdGenerator_new(IdMax, type))
                     ELSE ClosedConn]

\* gen.next_persistant_id()
Allocate ==
    LET n == next_persistant_id_in(IdMax, IdGen)
    IN  /\ conn' = [conn EXCEPT
              ![1].session = Some([Session(1) EXCEPT !.id_gen = n.gen])]
        /\ io' = Event(1, "next_persistant_id", n.id, <<>>, <<>>)
        /\ UNCHANGED <<now, require_auth, topics, dc_sessions, away>>

\* gen.free_id(id) for an allocated id
Release(id) ==
    /\ is_set(IdGen, id)
    /\ conn' = [conn EXCEPT
          ![1].session = Some([Session(1) EXCEPT
                                  !.id_gen = free_id(IdGen, id)])]
    /\ io' = Event(1, "free_id", Some(id), <<>>, <<>>)
    /\ UNCHANGED <<now, require_auth, topics, dc_sessions, away>>

\* the ids a restored session marks in use, of either parity
ReservedIds == {1, 2, IdMax - 1, IdMax}

\* gen.set_id(id)
Reserve(id) ==
    /\ ~is_set(IdGen, id)
    /\ conn' = [conn EXCEPT
          ![1].session = Some([Session(1) EXCEPT
                                  !.id_gen = IdGenSet(IdGen, id)])]
    /\ io' = Event(1, "set_id", Some(id), <<>>, <<>>)
    /\ UNCHANGED <<now, require_auth, topics, dc_sessions, away>>

NextIdGen ==
    \/ Allocate
    \/ \E id \in 1..IdMax : Release(id)
    \/ \E id \in ReservedIds : Reserve(id)

SpecIdGen == InitIdGen /\ [][NextIdGen]_vars

\* the ids of the parity of the generator: an allocation moves last by two,
\* and 0 is no packet id
IdsOfRole(gen) == {id \in 1..IdMax : id % 2 = gen.last % 2}

\* every id of the parity of the generator is allocated
Exhausted(gen) == IdsOfRole(gen) \subseteq gen.id_table

\* C20: when every id of the parity of the generator is allocated the next
\* allocation fails, and once any one of them is released, the one allocated
\* last included, the next allocation succeeds with an id of that parity
C20_ReleaseMakesRoom ==
    [][/\ Exhausted(IdGen) => ~IsSome(next_id_in(IdMax, IdGen).id)
       /\ \A id \in 1..IdMax :
             Exhausted(IdGen) /\ Release(id) =>
                /\ IsSome(next_id_in(IdMax, IdGen').id)
                /\ Unwrap(next_id_in(IdMax, IdGen').id) % 2 = id % 2
      ]_vars

\* the parity of the ids of a role: even for the broker, odd for the client
ParityOf(type) == IF type = "Broker" THEN 0 ELSE 1

MaxLevels == 3

\* the segments of the topic names: two plain ones and one that begins
\* with $
NameTokens == {Str("a"), Str("b"), DollarTok("$s")}

\* the topic names of 1 to n levels
NamesUpTo(n) == UNION {[1..k -> NameTokens] : k \in 1..n}

MatchNames == NamesUpTo(MaxLevels)

\* filters that end in #, after literal segments
MultiLevelFilters ==
    {<<MultiLevel>>, <<Str("a"), MultiLevel>>, <<DollarTok("$s"), MultiLevel>>,
     <<Str("a"), Str("b"), MultiLevel>>,
     <<DollarTok("$s"), Str("a"), MultiLevel>>}

\* filters that begin with a wildcard
WildcardFirstFilters ==
    {<<MultiLevel>>, <<SingleLevel>>, <<SingleLevel, MultiLevel>>,
     <<SingleLevel, Str("a")>>, <<SingleLevel, SingleLevel>>}

MatchFilters == MultiLevelFilters \cup WildcardFirstFilters

\* a connection in a session whose mailbox holds the slot of topic name
SessionWithSlot(name) ==
    [ClosedConn EXCEPT
        !.pc = "session",
        !.session = Some(ActiveSession_from_packet(OneClient, 0)),
        !.mailbox = <<Mail(name, 0)>>]

InitMatch ==
    /\ now = 0
    /\ require_auth = FALSE
    /\ topics = [t \in TopicNames |-> NoServerTopic]
    /\ dc_sessions = [k \in ClientIds |-> None]
    /\ away = [k \in ClientIds |-> NotAway]
    /\ io = Event(1, "new", 0, <<>>, <<>>)
    /\ \E name \in MatchNames :
          conn = [c \in Conns |->
                     IF c = 1 THEN SessionWithSlot(name) ELSE ClosedConn]

NextMatch ==
    \E id \in ClientPacketIds, filter \in MatchFilters :
        Unsubscribe(1, id, <<filter>>)

SpecMatch == InitMatch /\ [][NextMatch]_vars

\* the topic of the slot that connection 1 holds
SlotName == conn[1].mailbox[1].topic

\* a filter of literal segments and a final # matches the name: the
\* segments before # are the leading segments of the name, what follows is
\* of any length, and the segment at the place of # does not begin with $
MatchesMultiLevel(name, filter) ==
    LET k == Len(filter) - 1
    IN  /\ Len(name) >= k
        /\ \A i \in 1..k : name[i] = filter[i]
        /\ Len(name) > k => name[k + 1].kind # "Dollar"

\* C22: a filter that ends in # (# alone included) matches a name exactly
\* when its segments before # match the leading segments of the name, the
\* rest of the name being of any length, 0 included, unless the segment of
\* the name at the place of # begins with $
C22_MultiLevelWildcard ==
    [][\A id \in ClientPacketIds, filter \in MultiLevelFilters :
          conn[1].mailbox # <<>> /\ Unsubscribe(1, id, <<filter>>) =>
             (conn'[1].mailbox = <<>> <=> MatchesMultiLevel(SlotName, filter))
      ]_vars

\* C23: a filter that begins with # or + matches no name whose first
\* segment begins with $, and the filter $s/# matches every name below $s
C23_DollarNames ==
    [][\A id \in ClientPacketIds, filter \in MatchFilters :
          conn[1].mailbox # <<>> /\ Unsubscribe(1, id, <<filter>>) =>
             /\ filter \in WildcardFirstFilters /\ SlotName[1].kind = "Dollar"
                => conn'[1].mailbox # <<>>
             /\ /\ filter = <<DollarTok("$s"), MultiLevel>>
                /\ SlotName[1] = DollarTok("$s")
                /\ Len(SlotName) > 1
                => conn'[1].mailbox = <<>>
      ]_vars

(***************************************************************************)
(* The codec alone (mqtt-core/src/io/util.rs, codec/v4/mod.rs,             *)
(* codec/v3/publish.rs): a sender encodes, and what it wrote is decoded as *)
(* read_packet decodes it.  io records the value encoded in id, the bytes  *)
(* written in wrote and what the decoder returned in routed.               *)
(***************************************************************************)
\* MAX_ENCODED_PACKET_LEN
MAX_ENCODED_PACKET_LEN == 128 ^ 4 - 1

RECURSIVE EncodeLengthLoop(_)
\* the loop of encode_packet_length: seven bits a byte, least significant
\* first, bit 7 set on every byte but the last
EncodeLengthLoop(len) ==
    IF len \div 128 > 0
    THEN <<(len % 128) + 128>> \o EncodeLengthLoop(len \div 128)
    ELSE <<len % 128>>

\* an encode_packet_length without the test of the greatest length
EncodesAnyLength(len) == [ok |-> TRUE, bytes |-> EncodeLengthLoop(len)]

\* encode_packet_length
encode_packet_length(len) ==
    IF len > MAX_ENCODED_PACKET_LEN
    THEN [ok |-> FALSE, bytes |-> <<>>]
    ELSE [ok |-> TRUE, bytes |-> EncodeLengthLoop(len)]

RECURSIVE DecodeLengthLoop(_, _, _, _)
\* the loop of FixedHeader::decode_length over bytes.iter().take(4), at
\* byte i, with the multiplier and the length so far
DecodeLengthLoop(bytes, i, mult, len) ==
    IF i > Len(bytes) \/ i > 4
    THEN [len |-> len, i |-> i - 1, last |-> IF i = 1 THEN 0 ELSE bytes[i - 1]]
    ELSE IF bytes[i] < 128
    THEN [len |-> len + bytes[i] * mult, i |-> i, last |-> bytes[i]]
    ELSE DecodeLengthLoop(bytes, i + 1, mult * 128,
                          len + (bytes[i] % 128) * mult)

\* decode_length after its loop returned l
DecodedLength(bytes, l) ==
    IF l.len > MAX_ENCODED_PACKET_LEN \/ l.last > 127
    THEN [ok |-> FALSE, len_len |-> 0, rest_len |-> 0, rest |-> bytes]
    ELSE [ok |-> TRUE, len_len |-> l.i, rest_len |-> l.len,
          rest |-> SubSeq(bytes, l.i + 1, Len(bytes))]

\* FixedHeader::decode_length
decode_length(bytes) == DecodedLength(bytes, DecodeLengthLoop(bytes, 1, 1, 0))

\* how far around each power of 128 the lengths encoded lie
LengthSpread == 12

\* the lengths encoded: around 0, 128, 128^2, 128^3 and 128^4
Lengths ==
    {n \in {128 ^ e + d : e \in 0..4, d \in (0 - LengthSpread)..LengthSpread} :
        n >= 0}
    \cup {0}

\* encode_packet_length(n), and decode_length of the bytes written
EncodeLength(n) ==
    /\ io' = Event(1, "encode_packet_length", n,
                   <<encode_packet_length(n)>>,
                   IF encode_packet_length(n).ok
                   THEN <<decode_length(encode_packet_length(n).bytes)>>
                   ELSE <<>>)
    /\ UNCHANGED <<now, require_auth, topics, dc_sessions, conn, away>>

\* the number of bytes the remaining length n is to be encoded with
LengthBytes(n) ==
    IF n < 128 THEN 1 ELSE IF n < 128 ^ 2 THEN 2
    ELSE IF n < 128 ^ 3 THEN 3 ELSE 4

\* C25: a remaining length n of 0 to 128^4 - 1 is encoded in 1, 2, 3 or 4
\* bytes as n < 128, n < 128^2, n < 128^3, n < 128^4, and decoding the
\* bytes gives n; a length of 128^4 or more is not encoded
C25_RemainingLengthRoundTrip ==
    io.kind = "encode_packet_length" =>
       IF io.id >= 128 ^ 4
       THEN ~io.wrote[1].ok /\ io.wrote[1].bytes = <<>>
       ELSE /\ io.wrote[1].ok
            /\ Len(io.wrote[1].bytes) = LengthBytes(io.id)
            /\ io.routed[1].ok
            /\ io.routed[1].rest_len = io.id
            /\ io.routed[1].len_len = LengthBytes(io.id)
            /\ io.routed[1].rest = <<>>

\* the greatest length has been encoded, in four bytes, and decoded
C25_Witness ==
    /\ io.kind = "encode_packet_length"
    /\ io.id = MAX_ENCODED_PACKET_LEN
    /\ io.wrote[1].bytes = <<255, 255, 255, 127>>
    /\ io.routed[1].rest_len = MAX_ENCODED_PACKET_LEN

\* the bytes of the strings of the model, TextOf the other way
BytesOf(text) ==
    CASE text = "" -> <<>>
      [] text = "#" -> <<35>>
      [] text = "+" -> <<43>>
      [] text = "a" -> <<97>>
      [] text = "b" -> <<98>>
      [] text = "p" -> <<112>>
      [] text = "$s" -> <<36, 115>>

RECURSIVE TopicName_to_string(_)
\* TopicName::to_string: the segments, a '/' after each but the last
TopicName_to_string(name) ==
    IF name = <<>> THEN <<>>
    ELSE IF Len(name) = 1 THEN BytesOf(name[1].s)
    ELSE BytesOf(name[1].s) \o <<47>> \o TopicName_to_string(Tail(name))

RECURSIVE TopicNameLenSum(_)
\* the loop of TopicName::len: string.len() + 1 for a String token, 2 for
\* any other
TopicNameLenSum(name) ==
    IF name = <<>> THEN 0
    ELSE (IF name[1].kind = "String" THEN Len(BytesOf(name[1].s)) + 1 ELSE 2)
         + TopicNameLenSum(Tail(name))

\* TopicName::len
TopicName_len(name) == TopicNameLenSum(name) - 1

\* encode_utf8 / encode_bytes: the length as u16, big endian, then the bytes
encode_utf8(val) ==
    <<(Len(val) % 65536) \div 256, Len(val) % 256>> \o val

\* bytes.put_u16(packet_id) when the packet has an id
PacketIdBytes(p) ==
    IF IsSome(p.packet_id)
    THEN <<Unwrap(p.packet_id) \div 256, Unwrap(p.packet_id) % 256>>
    ELSE <<>>

\* the remaining length PublishPacket::encode computes
PublishLen(p) ==
    2 + TopicName_len(p.topic_name) + Len(PacketIdBytes(p))
      + Len(BytesOf(p.payload))

\* PublishPacket::encode; 48 is PacketType::PUBLISH
PublishPacket_encode(p) ==
    IF ~encode_packet_length(PublishLen(p)).ok
    THEN [ok |-> FALSE, bytes |-> <<>>]
    ELSE [ok |-> TRUE,
          bytes |-> <<48 + FlagsByte(p)>>
                    \o encode_packet_length(PublishLen(p)).bytes
                    \o encode_utf8(TopicName_to_string(p.topic_name))
                    \o PacketIdBytes(p)
                    \o BytesOf(p.payload)]

\* TopicName::from_str: no empty name, no wildcard segment
TopicName_from_str(string) ==
    IF string = <<>> THEN [ok |-> FALSE, name |-> <<>>]
    ELSE IF \E i \in 1..Len(TokensOf(SplitSlash(string, <<>>))) :
               TokensOf(SplitSlash(string, <<>>))[i].kind
                  \in {"MultiLevel", "SingleLevel"}
    THEN [ok |-> FALSE, name |-> <<>>]
    ELSE [ok |-> TRUE, name |-> TokensOf(SplitSlash(string, <<>>))]

\* PublishFixedHeaderFlags::qos of the flag bits
FlagsQos(byte) ==
    IF (byte \div 2) % 4 = 1 THEN 1
    ELSE IF (byte \div 2) % 4 = 2 THEN 2 ELSE 0

\* what a decoder returns: a packet, an error, a panic, or None while the
\* stream holds less than the remaining length
Decoded(outcome, packet) == [outcome |-> outcome, packet |-> packet]

\* PublishPacket::decode after the topic name, n being the name, flags the
\* type byte and rest what follows the name
PublishAfterName(flags, n, rest) ==
    IF ~n.ok THEN Decoded("error", NoPacket)
    ELSE IF FlagsQos(flags % 16) # 0 /\ get_u16(rest).panicked
    THEN Decoded("panic", NoPacket)
    ELSE Decoded("packet",
            [dup |-> (flags \div 8) % 2 = 1,
             qos |-> FlagsQos(flags % 16),
             retain |-> flags % 2 = 1,
             topic_name |-> n.name,
             packet_id |-> IF FlagsQos(flags % 16) # 0
                           THEN Some(get_u16(rest).value) ELSE None,
             payload |-> TextOf(IF FlagsQos(flags % 16) # 0
                                THEN get_u16(rest).rest ELSE rest)])

\* PublishPacket::decode after decode_utf8 returned u
PublishAfterUtf8(flags, u) ==
    IF u.panicked THEN Decoded("panic", NoPacket)
    ELSE IF ~u.ok THEN Decoded("error", NoPacket)
    ELSE PublishAfterName(flags, TopicName_from_str(u.string), u.rest)

\* PublishPacket::decode
PublishPacket_decode(flags, bytes) ==
    PublishAfterUtf8(flags, decode_utf8(bytes))

\* decode_mqtt_packet after FixedHeader::decode read the type byte and the
\* remaining length l: None while bytes are missing, then split_off and
\* MqttPacket::decode, of which the PUBLISH arm is modelled
DecodeAfterHeader(type_byte, l) ==
    IF ~l.ok \/ type_byte \div 16 # 3 THEN Decoded("error", NoPacket)
    ELSE IF Len(l.rest) < l.rest_len THEN Decoded("none", NoPacket)
    ELSE PublishPacket_decode(type_byte, SubSeq(l.rest, 1, l.rest_len))

\* decode_mqtt_packet on the bytes the stream holds
decode_mqtt_packet(bytes) ==
    IF bytes = <<>> THEN Decoded("none", NoPacket)
    ELSE DecodeAfterHeader(Head(bytes), decode_length(Tail(bytes)))

\* packet ids of the PUBLISH packets encoded, of one and of two bytes
CodecPacketIds == {2, 258}

\* the legal PUBLISH packets encoded: names of one and two levels, with
\* and without a first segment that begins with $
CodecPublishes ==
    {InboundPublish(name, payload, 0, 0, dup, retain) :
        name \in NamesUpTo(2), payload \in {"", "p"},
        dup \in BOOLEAN, retain \in BOOLEAN}
    \cup
    {InboundPublish(name, payload, qos, id, dup, retain) :
        name \in NamesUpTo(2), payload \in {"", "p"}, qos \in {1, 2},
        id \in CodecPacketIds, dup \in BOOLEAN, retain \in BOOLEAN}

\* packet.encode(), and decode_mqtt_packet of the bytes written
EncodePublish(packet) ==
    /\ io' = Event(1, "PublishPacket::encode", packet,
                   <<PublishPacket_encode(packet)>>,
                   <<decode_mqtt_packet(PublishPacket_encode(packet).bytes)>>)
    /\ UNCHANGED <<now, require_auth, topics, dc_sessions, conn, away>>

NextCodec ==
    \/ \E n \in Lengths : EncodeLength(n)
    \/ \E packet \in CodecPublishes : EncodePublish(packet)

SpecCodec == Init /\ [][NextCodec]_vars

\* C24: decoding the bytes of an encoded legal PUBLISH gives a packet equal
\* to the one encoded: QoS and packet id, DUP, RETAIN, payload and topic
\* name, names of several levels and names that begin with $ included
C24_PublishRoundTrip ==
    io.kind = "PublishPacket::encode" =>
       /\ io.wrote[1].ok
       /\ io.routed[1].outcome = "packet"
       /\ io.routed[1].packet = io.id

(***************************************************************************)
(* The connect flags of a CONNECT (mqtt-core/src/v3/connect.rs).  The      *)
(* flag byte is decoded as ConnectFlags::from_byte and its accessors       *)
(* compute it; the rest of the packet is well formed and carries the       *)
(* fields the flags announce.                                              *)
(***************************************************************************)
USERNAME == 128
PASSWORD == 64
WILL_RETAIN == 32
WILL_QOS_2 == 16
WILL_QOS_1 == 8
WILL_QOS_BITS == 24
WILL == 4
CLEAN_SESSION == 2
RESERVED_BIT == 1

\* the operator & of two unsigned bytes
RECURSIVE BitAnd(_, _)
BitAnd(a, b) ==
    IF a = 0 \/ b = 0 THEN 0
    ELSE (a % 2) * (b % 2) + 2 * BitAnd(a \div 2, b \div 2)

\* the operator ! of an unsigned byte
BitNot(a) == 255 - a

\* ConnectFlags::from_byte: "Ok" or the kind of the DecodeError.  The
\* operator >> binds tighter than &, and & binds tighter than ==
ConnectFlags_from_byte(byte) ==
    IF BitAnd(byte, WILL_QOS_BITS \div 8) > 3 THEN "WillQoS"
    ELSE IF BitAnd(byte, RESERVED_BIT) = RESERVED_BIT THEN "ProtocolError"
    ELSE IF BitAnd(byte, WILL) = 0 /\ BitAnd(byte, 56) # 0 THEN "Will"
    ELSE IF /\ BitAnd(byte, PASSWORD) = PASSWORD
            /\ BitAnd(byte, BitNot(USERNAME)) = USERNAME
         THEN "UsernamePassword"
    ELSE "Ok"

\* ConnectFlags::will_qos
ConnectFlags_will_qos(byte) ==
    IF BitAnd(byte, WILL_QOS_BITS) = WILL_QOS_1 THEN 1
    ELSE IF BitAnd(byte, WILL_QOS_BITS) = WILL_QOS_2 THEN 2
    ELSE 0

\* ConnectFlags::user_name, password, will_retain, will
ConnectFlags_user_name(byte) == BitAnd(byte, USERNAME) = USERNAME
ConnectFlags_password(byte) == BitAnd(byte, PASSWORD) = PASSWORD
ConnectFlags_will_retain(byte) == BitAnd(byte, WILL_RETAIN) = WILL_RETAIN
ConnectFlags_will(byte) == BitAnd(byte, WILL) = WILL

\* ConnectFlags::clean_session: false when the bit is set
ConnectFlags_clean_session(byte) ==
    IF BitAnd(byte, CLEAN_SESSION) = CLEAN_SESSION THEN FALSE ELSE TRUE

\* ConnectPacket::decode of a CONNECT of client c1 with the flag byte
\* `byte`: the will and the credentials are read when their flags are set
ConnectPacket_decode(byte, keep_alive) ==
    LET flags == ConnectFlags_from_byte(byte)
    IN  [ok |-> flags = "Ok",
         packet |->
            ConnectPacket("c1", ConnectFlags_clean_session(byte), keep_alive,
               IF ConnectFlags_will(byte)
               THEN Will(TopicA, "gone", ConnectFlags_will_qos(byte),
                         ConnectFlags_will_retain(byte))
               ELSE NoWill),
         username |-> ConnectFlags_user_name(byte),
         password |-> ConnectFlags_password(byte)]

FlagBytes == 0..255

\* the credentials handle_connect_packet sees: a pair only when the packet
\* has both a username and a password
CredentialsOf(d, pair) == IF d.username /\ d.password THEN pair ELSE "none"

\* handle_first_packet for a CONNECT with the flag byte `byte`: a decode
\* error ends the task, a decoded packet goes to handle_connect_packet
FirstConnect(c, byte, keep_alive, pair) ==
    IF ~ConnectPacket_decode(byte, keep_alive).ok
    THEN FirstPacketError(c)
    ELSE IF ConnectAccepted(CredentialsOf(ConnectPacket_decode(byte, keep_alive), pair))
    THEN Connect(c, ConnectPacket_decode(byte, keep_alive).packet,
                 CredentialsOf(ConnectPacket_decode(byte, keep_alive), pair))
    ELSE ConnectRejected(c, ConnectPacket_decode(byte, keep_alive).packet,
                 CredentialsOf(ConnectPacket_decode(byte, keep_alive), pair))

\* the flag bytes of the CONNECTs of the scenario: plain, reserved bit set,
\* clean session, with credentials, with credentials and clean session
SessionFlagBytes == {0, 1, 2, 192, 194}

NextConnectFlags ==
    \/ Accept(1)
    \/ \E byte \in SessionFlagBytes, keep_alive \in ConnectKeepAlives,
          pair \in {"ok", "bad"} : FirstConnect(1, byte, keep_alive, pair)
    \/ \E alg \in BinSearchAlgs :
          /\ ~AwaitsRelease(1, 2)
          /\ Publish(1, InboundPublish(TopicA, "p", 2, 2, FALSE, FALSE), alg)
    \/ Disconnect(1)
    \/ TransportError(1)
    \/ Tick

SpecConnectFlags == Init /\ [][NextConnectFlags]_vars

\* ConnectPacket::decode applied to a CONNECT with the flag byte `byte`
DecodeConnect(byte, keep_alive) ==
    /\ io' = Event(1, "ConnectPacket::decode", byte,
                   <<ConnectPacket_decode(byte, keep_alive)>>, <<>>)
    /\ UNCHANGED <<now, require_auth, topics, dc_sessions, conn, away>>

NextConnectDecode ==
    \/ \E byte \in FlagBytes, keep_alive \in ConnectKeepAlives :
          DecodeConnect(byte, keep_alive)

SpecConnectDecode == Init /\ [][NextConnectDecode]_vars

\* the four rules of the connect flags: bit 0 is reserved, a password needs
\* a username, without a will the will QoS and will retain are 0, and the
\* will QoS is not 3
BreaksFlagRule(byte) ==
    \/ byte % 2 = 1
    \/ (byte \div 64) % 2 = 1 /\ (byte \div 128) % 2 = 0
    \/ (byte \div 4) % 2 = 0 /\ (byte \div 8) % 8 # 0
    \/ (byte \div 8) % 4 = 3

\* C26: decoding a CONNECT fails whenever its flag byte has the reserved
\* bit set, the password flag without the username flag, a will QoS or
\* will retain without the will flag, or will QoS 3; it succeeds for every
\* other flag byte.
C26_ConnectFlagRules ==
    io.kind = "ConnectPacket::decode"
    => (~io.wrote[1].ok <=> BreaksFlagRule(io.id))

\* the clean-session flag of a flag byte, bit 1
CleanSessionFlag(byte) == (byte \div 2) % 2

\* C6: for an accepted CONNECT the registry entry of the client id is
\* taken out of the registry; with an entry and clean-session flag 0 the
\* session is resumed from it (its inflight lists) and CONNACK has session
\* present 1; with an entry and flag 1, or without an entry, the session
\* is fresh and CONNACK has session present 0.
C6_ConnectResumesOrStartsFresh ==
    [][\A byte \in SessionFlagBytes : \A keep_alive \in ConnectKeepAlives :
       \A pair \in {"ok", "bad"} :
          FirstConnect(1, byte, keep_alive, pair) /\ io'.kind = "Connect"
          => /\ ~IsSome(dc_sessions'["c1"])
             /\ IF IsSome(Entry("c1")) /\ CleanSessionFlag(byte) = 0
                THEN /\ io'.wrote = <<OutConnAck(TRUE, 0)>>
                     /\ Session(1)'.qos1_packets
                           = Unwrap(Entry("c1")).qos1_packets
                     /\ Session(1)'.qos2_packets
                           = Unwrap(Entry("c1")).qos2_packets
                ELSE /\ io'.wrote = <<OutConnAck(FALSE, 0)>>
                     /\ Session(1)'.qos1_packets = <<>>
                     /\ Session(1)'.qos2_packets = <<>>]_vars

\* the entries of both inflight lists of a session, QoS 1 first
InflightEntries(session) == session.qos1_packets \o session.qos2_packets

\* C27: in every reachable state of a session no packet id appears in more
\* than one entry across its QoS 1 and QoS 2 inflight lists, so a new
\* outbound PUBLISH never gets an id that an entry of the lists still holds.
C27_InflightIdsDistinct ==
    \A c \in Conns :
        InSession(c)
        => \A i, j \in 1..Len(InflightEntries(Session(c))) :
              InflightEntries(Session(c))[i].new_id
                 = InflightEntries(Session(c))[j].new_id
              => i = j

(***************************************************************************)
(* SpecRetransmit: one client subscribed at QoS 1 or QoS 2 to the topic it *)
(* publishes to at QoS 1 and QoS 2 under its own packet id 3, answering    *)
(* the broker's PUBLISH packets or not, while the clock runs.              *)
(***************************************************************************)
\* the seconds the retransmission specification lets pass
RetransmitTime == 2

RetransmitPublishes ==
    {InboundPublish(TopicA, "p", qos, 3, FALSE, FALSE) : qos \in {1, 2}}

\* the session of c holds an entry: the client publishes only while the
\* inflight lists of its session are empty
HoldsUnanswered(c) == InSession(c) /\ InflightEntries(Session(c)) # <<>>

NextRetransmit ==
    \/ Accept(1)
    \/ Connect(1, PatientClient, "none")
    \/ \E qos \in {1, 2}, alg \in BinSearchAlgs :
          Subscribe(1, 5, <<TopicFilter(TopicA, qos)>>, <<TopicA, TopicB>>, alg)
    \/ \E inbound \in RetransmitPublishes, alg \in BinSearchAlgs :
          /\ FollowsProtocol(1, inbound)
          /\ ~HoldsUnanswered(1)
          /\ Publish(1, inbound, alg)
    \/ PubRel(1, 3)
    \/ PubAck(1, 2)
    \/ PubRec(1, 2)
    \/ PubComp(1, 2)
    \/ \E alg \in BinSearchAlgs : LoopTail(1, alg)
    \/ now < RetransmitTime /\ Tick

SpecRetransmit == Init /\ [][NextRetransmit]_vars

\* w is a PUBLISH written by retry_packets
Retransmission(w) == w.type = "PUBLISH" /\ w.via = "retry"

\* C28: the retransmission of an unacknowledged outbound PUBLISH has DUP=1
\* and carries the broker-assigned id, the topic and the payload of an
\* entry in stage Origin of the session's lists, so that its
\* acknowledgement advances that entry.
C28_RetransmissionRepeatsFirst ==
    \A k \in 1..Len(io.wrote) :
        Retransmission(io.wrote[k])
        => /\ io.wrote[k].pkt.dup
           /\ InSession(io.conn)
           /\ \E i \in 1..Len(InflightEntries(Session(io.conn))) :
                 LET e == InflightEntries(Session(io.conn))[i]
                 IN  /\ e.stage = "Origin"
                     /\ e.new_id = io.wrote[k].id
                     /\ e.packet.topic_name = io.wrote[k].pkt.topic_name
                     /\ e.packet.payload = io.wrote[k].pkt.payload

\* the stages in which an entry is not retransmitted
SettledStages == {"Ack", "Comp", "Rel", "Publish"}

\* the positions of the entries of session that are in one of stages
EntriesIn(session, stages) ==
    {i \in 1..Len(InflightEntries(session)) :
        InflightEntries(session)[i].stage \in stages}

\* the positions in wrote of the packets that retry_packets wrote
Retransmissions(wrote) ==
    {k \in 1..Len(wrote) :
        wrote[k].type \in {"PUBLISH", "PUBREL"} /\ wrote[k].via = "retry"}

\* the entries at position i of list and of after are the same entry
SameEntry(list, after, i) ==
    /\ i <= Len(list)
    /\ Len(after) = Len(list)
    /\ after[i].new_id = list[i].new_id

\* C29: no packet is retransmitted for an entry in stage Ack, Comp, Rel or
\* Publish: a pass of the session loop retransmits at most once per entry
\* in stage Origin or Rec, PUBACK(B) puts the QoS 1 entries B in stage Ack
\* and PUBCOMP(B) the QoS 2 entry B in stage Comp, and an entry in one of
\* the four stages never returns to Origin or Rec.
C29_SettledNeverRetransmitted ==
    [][\A c \in Conns :
          InSession(c)
          => /\ \A alg \in BinSearchAlgs :
                   LoopTail(c, alg)
                   => Cardinality(Retransmissions(io'.wrote))
                         <= Cardinality(EntriesIn(Session(c), {"Origin", "Rec"}))
             /\ \A id \in BrokerPacketIds :
                   PubAck(c, id)
                   => \A i \in 1..Len(Session(c)'.qos1_packets) :
                         Session(c)'.qos1_packets[i].new_id = id
                         => Session(c)'.qos1_packets[i].stage = "Ack"
             /\ \A id \in BrokerPacketIds : \A i \in 1..MaxInflight :
                   HoldsSenderEntry(c, i, id, "Rec") /\ PubComp(c, id)
                   => \E j \in 1..i :
                         /\ Session(c)'.qos2_packets[j].new_id = id
                         /\ Session(c)'.qos2_packets[j].stage = "Comp"
             /\ InSession(c)'
                => \A i \in 1..MaxInflight :
                      /\ /\ SameEntry(Session(c).qos1_packets,
                                      Session(c)'.qos1_packets, i)
                         /\ Session(c).qos1_packets[i].stage \in SettledStages
                         => Session(c)'.qos1_packets[i].stage \in SettledStages
                      /\ /\ SameEntry(Session(c).qos2_packets,
                                      Session(c)'.qos2_packets, i)
                         /\ Session(c).qos2_packets[i].stage \in SettledStages
                         => Session(c)'.qos2_packets[i].stage \in SettledStages
      ]_vars

\* a pass of the session loop found a timed-out QoS 2 entry in stage
\* Comp, which had been retransmitted before, and wrote nothing
C29_Witness ==
    /\ io.kind = "LoopTail"
    /\ io.wrote = <<>>
    /\ InSession(io.conn)
    /\ \E i \in 1..Len(Session(io.conn).qos2_packets) :
          /\ Session(io.conn).qos2_packets[i].stage = "Comp"
          /\ Session(io.conn).qos2_packets[i].retry_duration > RETRY_BASE
          /\ is_timed_out(Session(io.conn).qos2_packets[i], now)

\* the clean-session flag of the CONNECT that opened connection c: the
\* field clean_session of conn holds what ConnectFlags::clean_session
\* returned for it, false for a flag that is set
CleanSessionFlagOf(c) == IF conn[c].clean_session THEN 0 ELSE 1

\* the id and the stage of every entry of an inflight list
IdsAndStages(list) ==
    [i \in 1..Len(list) |-> <<list[i].new_id, list[i].stage>>]

\* C30: when a connection of a persistent session (clean-session flag 0)
\* that holds inflight entries ends by error, the registry keeps its QoS 1
\* and QoS 2 entries with their ids and stages, and when the connection
\* was opened with clean-session flag 1 the state is discarded; a session
\* that is resumed holds exactly the entries of the registry entry, and
\* the rebuilt allocator has every id of them marked.
C30_ErrorEndKeepsOrDiscards ==
    [][/\ \A c \in Conns :
             /\ InSession(c)
             /\ InflightEntries(Session(c)) # <<>>
             /\ io'.kind = "TransportError" /\ io'.conn = c
             => IF CleanSessionFlagOf(c) = 1
                THEN ~IsSome(dc_sessions'[Session(c).client_id])
                ELSE /\ IsSome(dc_sessions'[Session(c).client_id])
                     /\ IdsAndStages(InflightEntries(
                           Unwrap(dc_sessions'[Session(c).client_id])))
                           = IdsAndStages(InflightEntries(Session(c)))
       /\ \A c \in Conns :
             /\ io'.kind = "Connect" /\ io'.conn = c
             /\ io'.wrote = <<OutConnAck(TRUE, 0)>>
             => /\ IsSome(Entry("c1"))
                /\ IdsAndStages(InflightEntries(Session(c)'))
                      = IdsAndStages(InflightEntries(Unwrap(Entry("c1"))))
                /\ \A i \in 1..Len(InflightEntries(Session(c)')) :
                      is_set(Session(c)'.id_gen,
                             InflightEntries(Session(c)')[i].new_id)
      ]_vars

(***************************************************************************)
(* SpecRegistry: two connections that each connect under either client id, *)
(* with and without clean session and keep-alive, and end by a transport   *)
(* error, connection 1 also publishing at QoS 2 and sending DISCONNECT,    *)
(* while the clock runs and the listener sweeps the registry at every      *)
(* accept.                                                                 *)
(***************************************************************************)
\* the seconds the registry specification lets pass
RegistryTime == 2

\* client c1 announces a keep-alive of one second, client c2 none
RegistryPackets ==
    {ConnectPacket("c1", clean_session, 1, NoWill) : clean_session \in BOOLEAN}
    \cup {ConnectPacket("c2", FALSE, 0, NoWill)}

NextRegistry ==
    \/ \E c \in {1, 2} : Accept(c)
    \/ \E c \in {1, 2}, packet \in RegistryPackets : Connect(c, packet, "ok")
    \/ \E alg \in BinSearchAlgs :
          /\ InSession(1)
          /\ Session(1).qos2_packets = <<>>
          /\ Publish(1, InboundPublish(TopicA, "p", 2, 3, FALSE, FALSE), alg)
    \/ Disconnect(1)
    \/ \E c \in {1, 2} : TransportError(c)
    \/ now < RegistryTime /\ Tick

SpecRegistry == Init /\ [][NextRegistry]_vars

\* C31: after an accepted CONNECT for client id k has been processed the
\* registry holds no entry for k and the entries of the other client ids
\* are unchanged; the registry, a map keyed by client id, holds at most
\* one entry per client id, the entry stored last.
C31_ConnectTakesEntry ==
    [][\A c \in Conns : \A packet \in RegistryPackets :
          Connect(c, packet, "ok")
          => /\ ~IsSome(dc_sessions'[packet.client_id])
             /\ \A k \in ClientIds \ {packet.client_id} :
                   dc_sessions'[k] = dc_sessions[k]]_vars

\* a CONNECT was accepted for a client id that had an entry while the
\* other client id has an entry too
C31_Witness ==
    /\ io.kind = "Connect"
    /\ io.wrote = <<OutConnAck(TRUE, 0)>>
    /\ \E k \in ClientIds :
          /\ IsSome(dc_sessions[k])
          /\ Unwrap(dc_sessions[k]).qos2_packets # <<>>

C37_OneSessionPerClientId ==
    \A c, d \in Conns :
        /\ InSession(c) /\ InSession(d)
        /\ Session(c).client_id = Session(d).client_id
        => c = d

(***************************************************************************)
(* SpecClean: ActiveSession::clean_session called on sessions whose        *)
(* inflight lists hold up to CleanMax + 1 entries in every combination of  *)
(* stages, each entry under an id of its own that the allocator has        *)
(* marked, as after a resume.                                              *)
(***************************************************************************)
\* CLEAN_MAX of ActiveSession::clean_session: u16::MAX / 2^4
CLEAN_MAX == U16Max \div (2 ^ 4)

QoS1Stages == {"Origin", "Publish", "Ack"}
QoS2Stages == {"Origin", "Publish", "Rec", "Rel", "Comp"}

\* the sequences of at most n elements of set
SeqsUpTo(set, n) == UNION {[1..k -> set] : k \in 0..n}

\* the QoS 1 list whose entries have the stages st, under ids 2, 4, ...
Qos1ListOf(st) ==
    [i \in 1..Len(st) |->
        [Qos1Origin(InboundPublish(TopicA, "p", 1, 3, FALSE, FALSE), 2 * i, 0)
            EXCEPT !.stage = st[i]]]

\* the QoS 2 list whose entries have the stages st, under the ids that
\* follow those of the QoS 1 list
Qos2ListOf(st) ==
    [i \in 1..Len(st) |->
        [Qos2Origin(InboundPublish(TopicA, "p", 2, 3, FALSE, FALSE),
                    2 * (CleanMax + 1 + i), 0)
            EXCEPT !.stage = st[i]]]

\* a session with the two lists, every id of them marked in the allocator
SessionWithLists(qos1, qos2) ==
    [ActiveSession_from_packet(OneClient, 0) EXCEPT
        !.qos1_packets = qos1,
        !.qos2_packets = qos2,
        !.id_gen.id_table = ListIds(qos1) \cup ListIds(qos2)]

\* connection c in its session loop with the given session
ConnWithSession(session) ==
    [ClosedConn EXCEPT !.pc = "session", !.session = Some(session)]

InitClean ==
    /\ now = 0
    /\ require_auth = FALSE
    /\ topics = [t \in TopicNames |-> NoServerTopic]
    /\ dc_sessions = [k \in ClientIds |-> None]
    /\ away = [k \in ClientIds |-> NotAway]
    /\ io = Event(1, "new", None, <<>>, <<>>)
    /\ \E st1 \in SeqsUpTo(QoS1Stages, CleanMax + 1),
          st2 \in SeqsUpTo(QoS2Stages, CleanMax + 1) :
          conn = [c \in Conns |->
                     IF c = 1
                     THEN ConnWithSession(
                             SessionWithLists(Qos1ListOf(st1), Qos2ListOf(st2)))
                     ELSE ClosedConn]

\* session.clean_session() on the session of connection c; the event keeps
\* the session it was called on
CleanSession(c) ==
    /\ InSession(c)
    /\ conn' = [conn EXCEPT
          ![c].session = Some(ActiveSession_clean_session(Session(c)))]
    /\ io' = Event(c, "ActiveSession::clean_session", <<Session(c)>>,
                   <<>>, <<>>)
    /\ UNCHANGED <<now, require_auth, topics, dc_sessions, away>>

NextClean ==
    \/ CleanSession(1)

SpecClean == InitClean /\ [][NextClean]_vars

\* the entry is not in the terminal stage of a QoS 1 list
NotAcknowledged(e) == e.stage # "Ack"
\* the entry is not in a terminal stage of a QoS 2 list
NotFinished(e) == e.stage \notin {"Comp", "Rel"}

\* the ids of the entries of list that fail the test keep
IdsDropped(list, keep(_)) ==
    {list[i].new_id : i \in {j \in 1..Len(list) : ~keep(list[j])}}

\* C32: cleanup leaves a list unchanged while it holds at most CLEAN_MAX =
\* 4095 entries (CleanMax in the model); when a list holds more, cleanup
\* removes exactly its terminal-stage entries (QoS 1 Ack, QoS 2 Comp and
\* Rel), keeps every other entry with its stage and relative order, and
\* releases in the allocator exactly the ids of the removed entries.
C32_CleanupRemovesTerminal ==
    /\ CLEAN_MAX = 4095
    /\ io.kind = "ActiveSession::clean_session"
       => LET before == io.id[1]
              after == Session(io.conn)
              big1 == Len(before.qos1_packets) > CleanMax
              big2 == Len(before.qos2_packets) > CleanMax
          IN  /\ after.qos1_packets
                    = IF big1
                      THEN SelectSeq(before.qos1_packets, NotAcknowledged)
                      ELSE before.qos1_packets
              /\ after.qos2_packets
                    = IF big2
                      THEN SelectSeq(before.qos2_packets, NotFinished)
                      ELSE before.qos2_packets
              /\ after.id_gen.id_table
                    = (before.id_gen.id_table
                         \ (IF big1
                            THEN IdsDropped(before.qos1_packets, NotAcknowledged)
                            ELSE {}))
                      \ (IF big2
                         THEN IdsDropped(before.qos2_packets, NotFinished)
                         ELSE {})

\* cleanup ran on a QoS 2 list above the threshold that held entries in
\* terminal stages between others, next to a QoS 1 list below the
\* threshold that held an acknowledged entry
C32_Witness ==
    /\ io.kind = "ActiveSession::clean_session"
    /\ Len(io.id[1].qos2_packets) > CleanMax
    /\ Len(Session(io.conn).qos2_packets) = 1
    /\ Session(io.conn).qos2_packets[1].stage = "Rec"
    /\ io.id[1].qos2_packets[1].stage = "Comp"
    /\ Len(io.id[1].qos1_packets) = CleanMax
    /\ Session(io.conn).qos1_packets[1].stage = "Ack"

(***************************************************************************)
(* SpecExhaust: a resumed session, with ids of IdBits bits, whose lists    *)
(* hold entries in every combination of stages under the even ids from 2   *)
(* on, all marked in the rebuilt allocator, and to which the mailbox loop  *)
(* forwards messages.                                                      *)
(***************************************************************************)
\* the session resumed with the QoS 1 stages st1 and the QoS 2 stages st2
ResumedWithLists(st1, st2) ==
    LET qos1 == Qos1ListOf(st1)
        qos2 == [i \in 1..Len(st2) |->
                    [Qos2Origin(InboundPublish(TopicA, "p", 2, 3, FALSE, FALSE),
                                2 * (Len(st1) + i), 0)
                        EXCEPT !.stage = st2[i]]]
    IN  [ActiveSession_from_packet(OneClient, 0) EXCEPT
            !.qos1_packets = qos1,
            !.qos2_packets = qos2,
            !.id_gen = [last |-> IdGenerator_new(IdMax, "Broker").last,
                        id_table |-> ListIds(qos1) \cup ListIds(qos2)]]

InitExhaust ==
    /\ now = 0
    /\ require_auth = FALSE
    /\ topics = [t \in TopicNames |-> NoServerTopic]
    /\ dc_sessions = [k \in ClientIds |-> None]
    /\ away = [k \in ClientIds |-> NotAway]
    /\ io = Event(1, "resumed", None, <<>>, <<>>)
    /\ \E st1 \in SeqsUpTo(QoS1Stages, 2), st2 \in SeqsUpTo(QoS2Stages, 1) :
          conn = [c \in Conns |->
                     IF c = 1
                     THEN ConnWithSession(ResumedWithLists(st1, st2))
                     ELSE ClosedConn]

\* the mailbox loop forwards a message of QoS qos: o is what
\* session.origin returned
OriginateDone(c, o) ==
    IF o.panicked
    THEN Panicked(c, "Panic")
    ELSE /\ conn' = [conn EXCEPT ![c].session = Some(o.session)]
         /\ io' = Event(c, "origin", 0, <<OutPublish(o.out, "forward")>>, <<>>)
         /\ UNCHANGED <<now, require_auth, topics, dc_sessions, away>>

\* the mailbox loop forwards a message: session.origin, with ids of IdBits
\* bits
Originate(c, qos, alg) ==
    /\ InSession(c)
    /\ Len(InflightEntries(Session(c))) <= MaxInflight
    /\ OriginateDone(c,
          OriginWithId(Session(c),
                       InboundPublish(TopicA, "q", qos, 3, FALSE, FALSE),
                       now, alg, next_id_in(IdMax, Session(c).id_gen)))

NextExhaust ==
    \/ \E qos \in QosLevels, alg \in BinSearchAlgs : Originate(1, qos, alg)

SpecExhaust == InitExhaust /\ [][NextExhaust]_vars

\* the allocator of the session of c has no id to give
NoFreeId(c) == ~IsSome(next_id_in(IdMax, Session(c).id_gen).id)

\* the ids of the terminal-stage entries of a session
TerminalIds(session) ==
    IdsDropped(session.qos1_packets, NotAcknowledged)
       \cup IdsDropped(session.qos2_packets, NotFinished)

\* C33: when a QoS 1 or QoS 2 PUBLISH is forwarded and the allocator has
\* no free id, the task does not panic: cleanup releases the ids of the
\* terminal-stage entries before the allocation is attempted again.
C33_ExhaustionCleansFirst ==
    [][\A qos \in {1, 2} : \A alg \in BinSearchAlgs :
          InSession(1) /\ NoFreeId(1) /\ Originate(1, qos, alg)
          => /\ io'.kind # "Panic"
             /\ InSession(1)'
             /\ TerminalIds(Session(1)) \cap Session(1)'.id_gen.id_table = {}
      ]_vars

(***************************************************************************)
(* SpecLocks: the two shared locks of MqttServer.  In this specification   *)
(* topics is the RwLock<ServerTopics> and dc_sessions the                  *)
(* Mutex<DisconnectedSessions>: the guarded value (data), the tasks that   *)
(* hold a guard (held) and the tasks queued for one (queue, first in first *)
(* out as in tokio's semaphore).  conn has one more element, the listener  *)
(* task of start_plaintext, and a step is what a task does between two     *)
(* lock operations or awaits.  The sessions carry no subscriptions: the    *)
(* steps keep the registries and the positions of the tasks.               *)
(***************************************************************************)
Listener == 0
LockConns == {1, 2}

FreeLock(data) == [data |-> data, held |-> {}, queue |-> <<>>]

HoldsGuard(l, task) == \E h \in l.held : h.task = task
WaitsFor(l, task) == \E i \in 1..Len(l.queue) : l.queue[i].task = task
\* the guard was handed to the task while it was queued
HandedGuard(l, task) == \E h \in l.held : h.task = task /\ h.queued

\* the guards held allow one more guard of the mode
Compatible(l, mode) ==
    IF mode = "read" THEN \A h \in l.held : h.mode = "read"
    ELSE l.held = {}

\* lock(), read() or write(): the guard at once when nobody is queued and
\* the guards held allow it, a place in the queue otherwise
acquire(l, task, mode) ==
    IF l.queue = <<>> /\ Compatible(l, mode)
    THEN [l EXCEPT !.held = @ \cup
                      {[task |-> task, mode |-> mode, queued |-> FALSE]}]
    ELSE [l EXCEPT !.queue = Append(@, [task |-> task, mode |-> mode])]

RECURSIVE HandOver(_)
\* the permits released go to the head of the queue
HandOver(l) ==
    IF l.queue # <<>> /\ Compatible(l, Head(l.queue).mode)
    THEN HandOver([l EXCEPT
            !.held = @ \cup {[task |-> Head(l.queue).task,
                              mode |-> Head(l.queue).mode,
                              queued |-> TRUE]},
            !.queue = Tail(@)])
    ELSE l

\* a guard that is never given back
KeepsGuard(l, task) == l

\* the guard of the task is dropped
drop_guard(l, task) ==
    HandOver([l EXCEPT !.held = {h \in @ : h.task # task}])

\* the CONNECT packets of the clients: no will, a will, a retained will
LockPackets ==
    {ConnectPacket("c1", TRUE, 0, will) :
        will \in {NoWill, Will(TopicA, "w", 0, FALSE),
                  Will(TopicA, "w", 0, TRUE)}}

InitLocks ==
    /\ now = 0
    /\ require_auth = FALSE
    /\ topics = FreeLock([t \in TopicNames |-> NoServerTopic])
    /\ dc_sessions = FreeLock([k \in ClientIds |-> None])
    /\ conn = [c \in {Listener} \cup Conns |->
                  IF c = Listener THEN [ClosedConn EXCEPT !.pc = "sweep"]
                  ELSE ClosedConn]
    /\ io = Event(0, "Init", 0, <<>>, <<>>)
    /\ away = [k \in ClientIds |-> NotAway]

LockFrame == UNCHANGED <<now, require_auth, away>>
At(c, pc) == conn[c].pc = pc
Requested(l, c) == HoldsGuard(l, c) \/ WaitsFor(l, c)

\* clean_expired_sessions: self.dc_sessions.lock()
SweepLock ==
    /\ At(Listener, "sweep") /\ ~Requested(dc_sessions, Listener)
    /\ dc_sessions' = acquire(dc_sessions, Listener, "lock")
    /\ io' = Event(Listener, "lock", 0, <<>>, <<>>)
    /\ UNCHANGED <<conn, topics>> /\ LockFrame

\* clean_expired_sessions: clean_expired() under the guard
Sweep ==
    /\ At(Listener, "sweep") /\ HoldsGuard(dc_sessions, Listener)
    /\ dc_sessions' =
          drop_guard([dc_sessions EXCEPT !.data = clean_expired(@, now)],
                     Listener)
    /\ conn' = [conn EXCEPT ![Listener].pc = "accept"]
    /\ io' = Event(Listener, "clean_expired", 0, <<>>, <<>>)
    /\ UNCHANGED topics /\ LockFrame

\* start_plaintext: listener.accept() and the spawn of handle_client
AcceptTask(c) ==
    /\ At(Listener, "accept") /\ At(c, "closed")
    /\ conn' = [conn EXCEPT ![Listener].pc = "sweep", ![c].pc = "first"]
    /\ io' = Event(c, "Accept", 0, <<>>, <<>>)
    /\ UNCHANGED <<topics, dc_sessions>> /\ LockFrame

\* handle_first_packet read a CONNECT: handle_connect_packet up to
\* server.dc_sessions.lock()
ConnectArrives(c, packet) ==
    /\ At(c, "first")
    /\ conn' = [conn EXCEPT ![c].pc = "connect",
                            ![c].session =
                                Some(ActiveSession_from_packet(packet, now)),
                            ![c].clean_session = packet.clean_session]
    /\ dc_sessions' = acquire(dc_sessions, c, "lock")
    /\ io' = Event(c, "lock", 0, <<>>, <<>>)
    /\ UNCHANGED topics /\ LockFrame

\* handle_connect_packet under the guard: remove_session, and the CONNACK
\* handed to the stream
ConnectLookup(c) ==
    /\ At(c, "connect") /\ HoldsGuard(dc_sessions, c)
    /\ dc_sessions' =
          [dc_sessions EXCEPT
              !.data = remove_session(@, Session(c).client_id)]
    /\ conn' = [conn EXCEPT ![c].pc = "connack"]
    /\ io' = Event(c, "Connect", 0, <<OutConnAck(FALSE, 0)>>, <<>>)
    /\ UNCHANGED topics /\ LockFrame

\* handle_connect_packet: write_all returned and the function returns,
\* which drops the guard
ConnAckWritten(c) ==
    /\ At(c, "connack")
    /\ dc_sessions' = drop_guard(dc_sessions, c)
    /\ conn' = [conn EXCEPT ![c].pc = "session"]
    /\ io' = Event(c, "unlock", 0, <<>>, <<>>)
    /\ UNCHANGED topics /\ LockFrame

\* handle_packet, Subscribe arm: server.topics().read()
SubscribeArrives(c) ==
    /\ At(c, "session")
    /\ conn' = [conn EXCEPT ![c].pc = "subscribe"]
    /\ topics' = acquire(topics, c, "read")
    /\ io' = Event(c, "read", 0, <<>>, <<>>)
    /\ UNCHANGED dc_sessions /\ LockFrame

\* Subscribe arm: subscribe_to_topic_filter returned, the read guard is
\* dropped and the SUBACK written
SubscribeDone(c) ==
    /\ At(c, "subscribe") /\ HoldsGuard(topics, c)
    /\ topics' = drop_guard(topics, c)
    /\ conn' = [conn EXCEPT ![c].pc = "session"]
    /\ io' = Event(c, "Subscribe", 0, <<>>, <<>>)
    /\ UNCHANGED dc_sessions /\ LockFrame

\* handle_packet, Publish arm of a QoS 0 PUBLISH: publish_to_topic up to
\* self.topics.write()
PublishArrives(c) ==
    /\ At(c, "session")
    /\ conn' = [conn EXCEPT ![c].pc = "publish"]
    /\ topics' = acquire(topics, c, "write")
    /\ io' = Event(c, "write", 0, <<>>, <<>>)
    /\ UNCHANGED dc_sessions /\ LockFrame

\* publish_to_topic under the write guard: the topic afterwards
RoutedUnderGuard(data, topic) ==
    IF data[topic].exists THEN data
    ELSE [data EXCEPT ![topic] = NewServerTopic]

\* publish_to_topic under the write guard, which is dropped at its end
PublishDone(c, topic) ==
    /\ At(c, "publish") /\ HoldsGuard(topics, c)
    /\ topics' = drop_guard([topics EXCEPT
                                !.data = RoutedUnderGuard(@, topic)], c)
    /\ conn' = [conn EXCEPT ![c].pc = "session"]
    /\ io' = Event(c, "Publish", 0, <<>>, <<>>)
    /\ UNCHANGED dc_sessions /\ LockFrame

\* the write guards publish_will still has to take: retain_message and
\* publish_to_topic for a retained will, publish_to_topic for a will
WillSections(session) ==
    IF ~IsSome(session.will) THEN 0
    ELSE IF Unwrap(session.will).will_retain THEN 2 ELSE 1

EndPc(n) == IF n = 2 THEN "end2" ELSE IF n = 1 THEN "end1" ELSE "end0"
SectionsLeft(c) ==
    IF At(c, "end2") THEN 2 ELSE IF At(c, "end1") THEN 1 ELSE 0
Ending(c) == conn[c].pc \in {"end2", "end1", "end0"}

\* handle_session returned an error: the Err arm of handle_client builds
\* the two futures of join!
SessionFails(c) ==
    /\ At(c, "session")
    /\ conn' = [conn EXCEPT ![c].pc = EndPc(WillSections(Session(c)))]
    /\ io' = Event(c, "TransportError", 0, <<>>, <<>>)
    /\ UNCHANGED <<topics, dc_sessions>> /\ LockFrame

\* join! polls publish_will: self.topics.write() of retain_message or of
\* publish_to_topic
WillLock(c) ==
    /\ Ending(c) /\ SectionsLeft(c) > 0 /\ ~Requested(topics, c)
    /\ topics' = acquire(topics, c, "write")
    /\ io' = Event(c, "write", 0, <<>>, <<>>)
    /\ UNCHANGED <<conn, dc_sessions>> /\ LockFrame

\* publish_will under the write guard: retain_message (unreachable!() for
\* a topic that does not exist: the task ends and its guards are dropped)
\* or publish_to_topic
WillSection(c) ==
    /\ Ending(c) /\ SectionsLeft(c) > 0 /\ HoldsGuard(topics, c)
    /\ LET topic == Unwrap(Session(c).will).will_topic
       IN  IF SectionsLeft(c) = 2 /\ ~topics.data[topic].exists
           THEN /\ topics' = drop_guard(topics, c)
                /\ dc_sessions' =
                      [drop_guard(dc_sessions, c) EXCEPT
                          !.queue = SelectSeq(@, LAMBDA w : w.task # c)]
                /\ conn' = [conn EXCEPT ![c] = ClosedConn]
                /\ io' = Event(c, "Panic", 0, <<>>, <<>>)
           ELSE /\ topics' =
                      drop_guard([topics EXCEPT !.data =
                                     IF SectionsLeft(c) = 2 THEN @
                                     ELSE RoutedUnderGuard(@, topic)], c)
                /\ conn' = [conn EXCEPT ![c].pc = EndPc(SectionsLeft(c) - 1)]
                /\ io' = Event(c, "publish_will", 0, <<>>, <<>>)
                /\ UNCHANGED dc_sessions
    /\ LockFrame

\* join! polls server.dc_sessions.lock() once the poll of publish_will
\* returned: publish_will is done or queued for the write guard
StoreLock(c) ==
    /\ Ending(c) /\ ~Requested(dc_sessions, c)
    /\ \/ SectionsLeft(c) = 0
       \/ WaitsFor(topics, c)
       \/ HandedGuard(topics, c)
    /\ dc_sessions' = acquire(dc_sessions, c, "lock")
    /\ io' = Event(c, "lock", 0, <<>>, <<>>)
    /\ UNCHANGED <<conn, topics>> /\ LockFrame

\* join! returned: dc_sessions.add_session(session.into()), and the guard
\* is dropped at the return
StoreSession(c) ==
    /\ Ending(c) /\ SectionsLeft(c) = 0 /\ HoldsGuard(dc_sessions, c)
    /\ dc_sessions' =
          drop_guard([dc_sessions EXCEPT
                         !.data[Session(c).client_id] =
                             Some(DisconnectedSession_from(Session(c)))], c)
    /\ conn' = [conn EXCEPT ![c] = ClosedConn]
    /\ io' = Event(c, "add_session", 0, <<>>, <<>>)
    /\ UNCHANGED topics /\ LockFrame

\* what the listener does without input
ListenerStep == SweepLock \/ Sweep

\* what the task of connection c does without input from its client
TaskStep(c) ==
    \/ ConnectLookup(c)
    \/ ConnAckWritten(c)
    \/ SubscribeDone(c)
    \/ \E topic \in {TopicA} : PublishDone(c, topic)
    \/ WillLock(c)
    \/ WillSection(c)
    \/ StoreLock(c)
    \/ StoreSession(c)

NextLocks ==
    \/ ListenerStep
    \/ \E c \in LockConns : AcceptTask(c)
    \/ \E c \in LockConns, packet \in LockPackets : ConnectArrives(c, packet)
    \/ \E c \in LockConns : SubscribeArrives(c)
    \/ \E c \in LockConns : PublishArrives(c)
    \/ \E c \in LockConns : SessionFails(c)
    \/ \E c \in LockConns : TaskStep(c)

SpecLocks == InitLocks /\ [][NextLocks]_vars

\* the tokio runtime polls a task that can run, and a write to the stream
\* returns
SpecLocksFair ==
    /\ SpecLocks
    /\ WF_vars(ListenerStep)
    /\ \A c \in LockConns : WF_vars(TaskStep(c))

HoldsBoth(c) == HoldsGuard(topics, c) /\ HoldsGuard(dc_sessions, c)

\* C35: no task holds the topic-registry lock and the disconnected-session
\* lock at the same time, and a task that ends its connection has the
\* disconnected-session lock when it takes the topic lock.
C35_LocksNeverNested ==
    /\ [](\A c \in LockConns : ~HoldsBoth(c))
    /\ [][\A c \in LockConns :
             Ending(c) /\ ~HoldsGuard(topics, c) /\ HoldsGuard(topics, c)'
             => HoldsGuard(dc_sessions, c)]_vars

LockTasks == {Listener} \cup LockConns

\* the task can do nothing until it is handed a guard it is queued for
Blocked(c) ==
    /\ WaitsFor(topics, c) \/ WaitsFor(dc_sessions, c)
    /\ IF c = Listener THEN ~ENABLED ListenerStep ELSE ~ENABLED TaskStep(c)

\* the task waits for a guard that u holds
WaitsOn(c, u) ==
    \/ WaitsFor(topics, c) /\ HoldsGuard(topics, u)
    \/ WaitsFor(dc_sessions, c) /\ HoldsGuard(dc_sessions, u)

NoLockCycle ==
    \A S \in SUBSET LockTasks :
        S # {} => \E c \in S : ~(Blocked(c) /\ \E u \in S \ {c} : WaitsOn(c, u))

\* the task of c was ended by a panic: its requests went with it
Aborted(c) == c # Listener /\ At(c, "closed")

PubAcksWritten ==
    {i \in 1..Len(io.wrote) :
        io.wrote[i].type = "PUBACK"}

\* C38: a PUBACK with id I is written only in answer to an inbound QoS 1
\* PUBLISH with id I: no inbound PUBACK, PUBREC, PUBREL or PUBCOMP makes
\* the broker write a PUBACK.
C38_PubAckOnlyAnswersPublish ==
    \A i \in PubAcksWritten :
        io.kind = "Publish" /\ io.wrote[i].id = io.id


\* the mailbox was handed the packet on a slot of its topic
Handed(mailbox, packet) ==
    \E i \in 1..Len(mailbox) :
        /\ mailbox[i].topic = packet.topic_name
        /\ mailbox[i].queue # <<>>
        /\ mailbox[i].queue[Len(mailbox[i].queue)].payload = packet.payload

\* C39: once the SUBSCRIBE of a client to a valid filter has been
\* processed, a message published to a matching topic afterwards is handed
\* to that client, also when it is the first message of the topic.
C39_SubscribedGetsLaterPublish ==
    [][\A inbound \in ForwardPublishes : \A alg \in BinSearchAlgs :
          /\ io.kind = "Subscribe" /\ io.conn = 1
          /\ inbound.qos = 1 /\ ~inbound.retain
          /\ Publish(1, inbound, alg)
          => Handed(conn'[1].mailbox, inbound)]_vars


\* the mailbox loop of handle_session: the QoS a message published with
\* QoS qos leaves with through the slot mail
ForwardQos(mail, qos) == Min(mail.qos_level, qos)

\* C40: after a SUBSCRIBE has been acknowledged with the code g, which is
\* no failure, the messages of the matching topic are forwarded with
\* QoS min(g, published QoS), also when the client held a subscription to
\* the topic with another QoS before.
C40_GrantedQosForwards ==
    io.kind = "Subscribe" /\ InSession(io.conn)
    => \A g \in QosLevels :
          SubAcks(io.wrote)[1].codes = <<g>>
          => \A i \in 1..Len(conn[io.conn].mailbox) : \A qos \in QosLevels :
                conn[io.conn].mailbox[i].topic = TopicA
                => ForwardQos(conn[io.conn].mailbox[i], qos) = Min(g, qos)

====
